---- MODULE Spec2Model ----
(***************************************************************************)
(* The llx query execution runtime (LeiseExecutorV1, src/llx/llx_v1.go):   *)
(* result cache, dependency graph (CallsV1), chain walk, block executors,  *)
(* forward propagation and teardown.                                       *)
(***************************************************************************)
EXTENDS Integers, Sequences, FiniteSets, TLC

\* ------------------------------------------------------------------ bounds
\* external operations (Run, NoRun, Unregister, provider notifications) per behaviour
MaxOps == 4
\* loop iterations of chain walks per external operation
MaxFuel == 12

\* ------------------------------------------------------------------ values
NilErr == [kind |-> "nil", msg |-> "", errs |-> <<>>]
NotReadyError == [kind |-> "notready", msg |-> "NotReadyError", errs |-> <<>>]
HardErr(m) == [kind |-> "hard", msg |-> m, errs |-> <<>>]

IsNotReady(err) == err.kind = "notready"

\* multierror.Append(anyError, err)
MultiAppend(anyError, err) ==
    [kind |-> "multi", msg |-> "", errs |-> Append(anyError.errs, err)]

NilData == [isNil |-> TRUE]
NilValue == [k |-> "nil", v |-> 0]
IntValue(n) == [k |-> "int", v |-> n]
ResourceValue(n) == [k |-> "res", v |-> n]
\* a block result map is shared by reference between the composite value and
\* the closure that keeps filling it: the value names the child executor whose
\* closure owns the map
BlockValue(child) == [k |-> "blockmap", v |-> child]

RawData(t, v, e) == [Type |-> t, Value |-> v, Error |-> e]
IsResource(t) == t \in {"resource:host", "resource:pkg"}

StepCache(r, s) == [Result |-> r, IsStatic |-> s]

errorResult(err, codeID) == [Data |-> RawData("unset", NilValue, err), CodeID |-> codeID]
errorResultMsg(m, codeID) == errorResult(HardErr(m), codeID)

\* ------------------------------------------------------------------ programs
NoPrimitive == [Type |-> "none", Value |-> 0]
NoFunction == [Binding |-> 0, Args |-> <<>>]
IntPrim(n) == [Type |-> "int", Value |-> n]
RefPrim(r) == [Type |-> "ref", Value |-> r]
FunPrim(f) == [Type |-> "function", Value |-> f]

Lit(n) == [Call |-> "PRIMITIVE", Id |-> "", Primitive |-> IntPrim(n), Function |-> NoFunction]
Prop(name) == [Call |-> "PROPERTY", Id |-> name, Primitive |-> NoPrimitive, Function |-> NoFunction]
Fn(id, bind, args) ==
    [Call |-> "FUNCTION", Id |-> id, Primitive |-> NoPrimitive,
     Function |-> [Binding |-> bind, Args |-> args]]
Unknown == [Call |-> "UNKNOWN", Id |-> "", Primitive |-> NoPrimitive, Function |-> NoFunction]
NilChunk == [Call |-> "NIL", Id |-> "", Primitive |-> NoPrimitive, Function |-> NoFunction]

EmptyMap == [x \in {} |-> 0]

CodeV1(code, eps, dps, sums, funs, single) ==
    [Code |-> code, Entrypoints |-> eps, Datapoints |-> dps, Checksums |-> sums,
     Functions |-> funs, SingleValue |-> single]

\* code.Checksums[ref]: the zero value "" for a missing key
Checksum(code, ref) == IF ref \in DOMAIN code.Checksums THEN code.Checksums[ref] ELSE ""

\* property bindings handed to the executor
Props == ("p" :> IntPrim(3))

\* names with a registered global handler (handleGlobalV1)
GlobalHandlers == {"typeof"}
\* bound builtin functions
BoundBuiltins == {"add", "fail", "{}"}

\* ------------------------------------------------------------------ state
VARIABLES
    ex,        \* the executors: ex[1] is the caller's, the others are block executors
    log,       \* every invocation of an executor's callback, in order
    tr,        \* what the last operation did (visits, evaluations, provider calls)
    panic,     \* a Go panic was raised
    over,      \* a chain walk ran out of the step budget
    op,        \* the last external operation and what it returned
    hist,      \* the names of the external operations so far
    ctx        \* the evaluation contexts running concurrently (position, locals)

vars == <<ex, log, tr, panic, over, op, hist, ctx>>

\* the mutable world the operations of one action work on; prov holds the
\* outcomes of the provider's next CreateResource calls (the last one repeats),
\* fails the watcher ids whose runtime.Unregister fails, by the method the
\* caller entered through ("walk" for Run and the provider's triggerChain)
World(prov, fails) ==
    [ex |-> ex, log |-> log, tr |-> <<>>, prov |-> prov, fails |-> fails,
     panic |-> panic, over |-> over, fuel |-> MaxFuel, by |-> "walk"]

Ret(w, res, nref, err) == [w |-> w, res |-> res, nref |-> nref, err |-> err]

\* tr records, for the operation in progress: "start" (Run starts a walk at an
\* entrypoint), "walk" (runChain called), "visit"
\* (one loop iteration), "cached" (the result came from the cache), "eval"
\* (runRef called; data is the receiver's cached result, if any), "create"
\* (runtime.CreateResource answered x), "prop", "global", "bound" (the chunk's
\* own function ran), "connect" (connectRef stored the edge from ref to data.dst,
\* or found it), "deliver" (runChain hands cur's result or error to the
\* callback), "failed" (runChain's error branch ran; data holds the entry of the
\* ref before and after), "fanout" (the walk goes on to the dependents in
\* data), "trigger"
\* (triggerChain called), "resolve" (a block's composite
\* value was stored), "cb" (a callback invoked with code id x and data),
\* "unregister" and "unwatch" (teardown attempts), "pass" (triggerChainError
\* went through a ref that is no callback point)
Ev(kind, e, ref, x, data) == [ev |-> kind, e |-> e, ref |-> ref, x |-> x, data |-> data]
TraceD(w, kind, e, ref, x, data) == [w EXCEPT !.tr = Append(@, Ev(kind, e, ref, x, data))]
Trace(w, kind, e, ref, x) == TraceD(w, kind, e, ref, x, NilData)

Panic(w) == [w EXCEPT !.panic = TRUE]

\* ------------------------------------------------------------------ CallsV1
CallsLoad(calls, k) == IF k \in DOMAIN calls THEN calls[k] ELSE <<>>

\* Store comparing v with the first stored ref only (the fault C12's formula
\* has to detect)
CallsStoreFirst(calls, k, v) ==
    IF k \in DOMAIN calls /\ Len(calls[k]) > 0 /\ calls[k][1] = v
    THEN [exists |-> TRUE, calls |-> calls]
    ELSE [exists |-> FALSE,
          calls |-> (k :> Append(CallsLoad(calls, k), v)) @@ calls]

\* Store entering a new key without its first dependent (the fault C32's
\* formula has to detect)
CallsStoreEmptyKey(calls, k, v) ==
    IF k \in DOMAIN calls /\ \E i \in 1..Len(calls[k]) : calls[k][i] = v
    THEN [exists |-> TRUE, calls |-> calls]
    ELSE IF k \in DOMAIN calls
    THEN [exists |-> FALSE, calls |-> (k :> Append(calls[k], v)) @@ calls]
    ELSE [exists |-> FALSE, calls |-> (k :> <<>>) @@ calls]

\* Store putting a new dependent in front of the others (the fault C33's
\* formula has to detect)
CallsStorePrepend(calls, k, v) ==
    IF k \in DOMAIN calls /\ \E i \in 1..Len(calls[k]) : calls[k][i] = v
    THEN [exists |-> TRUE, calls |-> calls]
    ELSE [exists |-> FALSE,
          calls |-> (k :> (<<v>> \o CallsLoad(calls, k))) @@ calls]

CallsStore(calls, k, v) ==
    IF k \in DOMAIN calls /\ \E i \in 1..Len(calls[k]) : calls[k][i] = v
    THEN [exists |-> TRUE, calls |-> calls]
    ELSE [exists |-> FALSE,
          calls |-> (k :> Append(CallsLoad(calls, k), v)) @@ calls]

\* ------------------------------------------------------------------ CacheV1
CacheStore(w, e, k, v) == [w EXCEPT !.ex[e].cache = (k :> v) @@ @]
CacheHas(w, e, k) == k \in DOMAIN w.ex[e].cache

\* ------------------------------------------------------------------ executor
NoClosure ==
    [parent |-> 0, ref |-> 0, bind |-> NilData, single |-> FALSE, expected |-> 0,
     blockResult |-> EmptyMap, anyError |-> NilErr]

RECURSIVE PointsOf(_, _, _, _)
\* the validation loops without the test of lines 124-126 and 136-138 (the
\* fault C11's formula has to detect)
PointsOfAnyRef(code, refs, i, acc) ==
    IF acc.err # NilErr \/ i > Len(refs) THEN acc
    ELSE IF Checksum(code, refs[i]) = "" THEN [acc EXCEPT !.err = HardErr("invalid ref ID")]
    ELSE PointsOf(code, refs, i + 1,
                  [acc EXCEPT !.points = (refs[i] :> Checksum(code, refs[i])) @@ @])

\* the two validation loops of NewExecutorV1 over a list of refs
PointsOf(code, refs, i, acc) ==
    IF acc.err # NilErr \/ i > Len(refs) THEN acc
    ELSE IF Checksum(code, refs[i]) = "" THEN [acc EXCEPT !.err = HardErr("invalid ref ID")]
    ELSE IF refs[i] < 1 THEN [acc EXCEPT !.err = HardErr("invalid ref number")]
    ELSE PointsOf(code, refs, i + 1,
                  [acc EXCEPT !.points = (refs[i] :> Checksum(code, refs[i])) @@ @])

\* the end of NewExecutorV1: pts is what the two loops left
NewExecutorOf(code, cb, closure, pts) ==
    IF pts.err # NilErr THEN [err |-> pts.err]
    ELSE IF DOMAIN pts.points = {} THEN [err |-> HardErr("no callback points found")]
    ELSE [err |-> NilErr,
          exec |-> [code |-> code,
                    callbackPoints |-> pts.points,
                    callback |-> cb,
                    closure |-> closure,
                    cache |-> EmptyMap,
                    stepTracker |-> {},
                    calls |-> EmptyMap,
                    blockExecutors |-> <<>>,
                    watcherIds |-> {}]]

NewExecutorV1(code, runtime, cb, closure) ==
    IF runtime = "nil" THEN [err |-> HardErr("cannot exec leise without a runtime")]
    ELSE IF code = NilData THEN [err |-> HardErr("cannot RunChunky without code")]
    ELSE NewExecutorOf(code, cb, closure,
            PointsOf(code, code.Datapoints, 1,
                     PointsOf(code, code.Entrypoints, 1, [err |-> NilErr, points |-> EmptyMap])))

\* runtime.CreateResource(name, args...): the provider's next outcome
ProviderOutcome(w, name) == Head(w.prov)
ProviderAdvance(w, name) ==
    IF Len(w.prov) > 1 THEN [w EXCEPT !.prov = Tail(@)] ELSE w

\* The operations below call one another in cycles (a walk runs a block, whose
\* executor runs walks, whose callback triggers the parent's chain, ...). Every
\* such call goes through Do, which dispatches on the name of the operation.
RECURSIVE Do(_, _)
do_callback(w, e, r) == Do(w, [fn |-> "callback", a |-> <<e, r>>])
do_BlockCallback(w, child, r) == Do(w, [fn |-> "BlockCallback", a |-> <<child, r>>])
do_triggerChain(w, e, ref, data) == Do(w, [fn |-> "triggerChain", a |-> <<e, ref, data>>])
do_runChain(w, e, start) == Do(w, [fn |-> "runChain", a |-> <<e, start>>])
do_ChainLoop(w, e, nextRef, remaining) ==
    Do(w, [fn |-> "ChainLoop", a |-> <<e, nextRef, remaining>>])
do_runRef(w, e, ref) == Do(w, [fn |-> "runRef", a |-> <<e, ref>>])
do_runBlock(w, e, bind, functionRef, args, ref) ==
    Do(w, [fn |-> "runBlock", a |-> <<e, bind, functionRef, args, ref>>])
do_runBoundFunctionV1(w, e, bind, chunk, ref) ==
    Do(w, [fn |-> "runBoundFunctionV1", a |-> <<e, bind, chunk, ref>>])
do_Run(w, e) == Do(w, [fn |-> "Run", a |-> <<e>>])
do_Unregister(w, e) == Do(w, [fn |-> "Unregister", a |-> <<e>>])

\* the callback record of an invocation; cached is what the executor's cache
\* held at that moment
Logged(w, e, r) ==
    [w EXCEPT !.log = Append(@, [e |-> e, CodeID |-> r.CodeID, Data |-> r.Data,
                                 to |-> w.ex[e].callback.kind,
                                 cached |-> DOMAIN w.ex[e].cache, by |-> w.by]),
              !.tr = Append(@, Ev("cb", e, 0, r.CodeID, r.Data))]

\* c.callback(r) on executor e: the caller's callback, the no-op installed by
\* Unregister, or the closure runBlock handed to a block executor
callback(w, e, r) ==
    IF w.ex[e].callback.kind = "block"
    THEN do_BlockCallback(Logged(w, e, r), e, r)
    ELSE Logged(w, e, r)

\* connectRef sending the walk to src also when the edge existed (the fault
\* C27's formula has to detect)
ConnectedAlways(w, e, src, s) ==
    Ret([w EXCEPT !.ex[e].calls = s.calls], NilData, src, NilErr)

\* the two returns of connectRef, s being what c.calls.Store answered
Connected(w, e, src, s) ==
    IF s.exists
    THEN Ret([w EXCEPT !.ex[e].calls = s.calls], NilData, 0, NilErr)
    ELSE Ret([w EXCEPT !.ex[e].calls = s.calls], NilData, src, NilErr)

\* connectRef(src, dst)
connectRef(w, e, src, dst) ==
    Connected(TraceD(w, "connect", e, src,
                     IF CallsStore(w.ex[e].calls, src, dst).exists THEN "exists" ELSE "new",
                     [dst |-> dst, cached |-> DOMAIN w.ex[e].cache]),
              e, src, CallsStore(w.ex[e].calls, src, dst))

\* resolveValue(arg, ref): a literal is its value; a ref is the cached result
\* of that ref, or a connection to it when it has none yet
resolveValue(w, e, arg, ref) ==
    IF arg.Type = "ref"
    THEN IF CacheHas(w, e, arg.Value)
         THEN Ret(w, w.ex[e].cache[arg.Value].Result, 0,
                  w.ex[e].cache[arg.Value].Result.Error)
         ELSE connectRef(w, e, arg.Value, ref)
    ELSE Ret(w, RawData("int", IntValue(arg.Value), NilErr), 0, NilErr)

RECURSIVE ResolveArgs(_, _, _, _, _, _)
\* one argument resolved to r: stop at an error or at a ref that has to run first
ResolveArg(r, e, args, i, ref, acc) ==
    IF r.err # NilErr \/ r.nref # 0
    THEN [w |-> r.w, res |-> r.res, nref |-> r.nref, err |-> r.err, vals |-> acc]
    ELSE ResolveArgs(r.w, e, args, i + 1, ref, Append(acc, r.res))

\* the argument loops of args2resourceargsV1, runBlock and the bound builtins
ResolveArgs(w, e, args, i, ref, acc) ==
    IF i > Len(args) THEN [w |-> w, res |-> NilData, nref |-> 0, err |-> NilErr, vals |-> acc]
    ELSE ResolveArg(resolveValue(w, e, args[i], ref), e, args, i, ref, acc)

ResourceType(name) == IF name = "host" THEN "resource:host" ELSE "resource:pkg"

\* createResource without lines 316-326: a hard failure is returned but not
\* stored (the fault C22's formula has to detect)
CreatedNoStore(w, e, name, ref, out) ==
    IF out = "notready" THEN Ret(w, NilData, 0, NotReadyError)
    ELSE IF out = "fail" THEN Ret(w, NilData, 0, HardErr("create failed"))
    ELSE Ret(CacheStore(w, e, ref,
                 StepCache(RawData(ResourceType(name), ResourceValue(name), NilErr), TRUE)),
             RawData(ResourceType(name), ResourceValue(name), NilErr), 0, NilErr)

\* createResource after runtime.CreateResource answered out
Created(w, e, name, ref, out) ==
    IF out = "notready" THEN Ret(w, NilData, 0, NotReadyError)
    ELSE IF out = "fail"
    THEN Ret(CacheStore(w, e, ref,
                 StepCache(RawData(ResourceType(name), NilValue, HardErr("create failed")), TRUE)),
             NilData, 0, HardErr("create failed"))
    ELSE Ret(CacheStore(w, e, ref,
                 StepCache(RawData(ResourceType(name), ResourceValue(name), NilErr), TRUE)),
             RawData(ResourceType(name), ResourceValue(name), NilErr), 0, NilErr)

\* createResource after args2resourceargsV1 returned a
CreateWith(a, e, name, ref) ==
    IF a.err # NilErr \/ a.nref # 0 THEN Ret(a.w, NilData, a.nref, a.err)
    ELSE Created(Trace(ProviderAdvance(a.w, name), "create", e, ref, ProviderOutcome(a.w, name)),
                 e, name, ref, ProviderOutcome(a.w, name))

createResource(w, e, name, f, ref) ==
    CreateWith(ResolveArgs(w, e, f.Args, 1, ref, <<>>), e, name, ref)

\* a registered global handler h(c, f, ref), a being its resolved arguments:
\* typeof, the type of its argument
HandlerWith(a) ==
    IF a.err # NilErr \/ a.nref # 0 THEN Ret(a.w, NilData, a.nref, a.err)
    ELSE IF Len(a.vals) = 0 THEN Ret(a.w, NilData, 0, HardErr("missing argument"))
    ELSE Ret(a.w, RawData("int", IntValue(0), NilErr), 0, NilErr)

GlobalHandler(w, e, f, ref) ==
    HandlerWith(ResolveArgs(Trace(w, "global", e, ref, ""), e, f.Args, 1, ref, <<>>))

\* if res != nil { c.cache.Store(ref, &stepCache{Result: res}) }; return res, dref, err
StoreResult(r, e, ref) ==
    IF r.res # NilData
    THEN Ret(CacheStore(r.w, e, ref, StepCache(r.res, FALSE)), r.res, r.nref, r.err)
    ELSE r

runGlobalFunction(w, e, chunk, f, ref) ==
    IF chunk.Id \in GlobalHandlers
    THEN StoreResult(GlobalHandler(w, e, f, ref), e, ref)
    ELSE createResource(w, e, chunk.Id, f, ref)

\* runFunction with lines 389-392 left out: a receiver's error is handed to the
\* bound function like a value (the fault C5's formula has to detect)
runFunctionNoInherit(w, e, chunk, ref) ==
    IF chunk.Function.Binding = 0 THEN runGlobalFunction(w, e, chunk, chunk.Function, ref)
    ELSE IF ~CacheHas(w, e, chunk.Function.Binding)
    THEN connectRef(w, e, chunk.Function.Binding, ref)
    ELSE do_runBoundFunctionV1(w, e, w.ex[e].cache[chunk.Function.Binding].Result, chunk, ref)

\* runFunction reporting a missing receiver as an error instead of connecting
\* to it (the fault C15's formula has to detect)
runFunctionNoWait(w, e, chunk, ref) ==
    IF chunk.Function.Binding = 0 THEN runGlobalFunction(w, e, chunk, chunk.Function, ref)
    ELSE IF ~CacheHas(w, e, chunk.Function.Binding)
    THEN Ret(w, NilData, 0, HardErr("receiver missing"))
    ELSE IF w.ex[e].cache[chunk.Function.Binding].Result.Error # NilErr
    THEN Ret(CacheStore(w, e, ref,
                        StepCache(w.ex[e].cache[chunk.Function.Binding].Result, FALSE)),
             NilData, 0, w.ex[e].cache[chunk.Function.Binding].Result.Error)
    ELSE do_runBoundFunctionV1(w, e, w.ex[e].cache[chunk.Function.Binding].Result, chunk, ref)

runFunction(w, e, chunk, ref) ==
    IF chunk.Function.Binding = 0 THEN runGlobalFunction(w, e, chunk, chunk.Function, ref)
    ELSE IF ~CacheHas(w, e, chunk.Function.Binding)
    THEN connectRef(w, e, chunk.Function.Binding, ref)
    ELSE IF w.ex[e].cache[chunk.Function.Binding].Result.Error # NilErr
    THEN Ret(CacheStore(w, e, ref,
                        StepCache(w.ex[e].cache[chunk.Function.Binding].Result, FALSE)),
             NilData, 0, w.ex[e].cache[chunk.Function.Binding].Result.Error)
    ELSE do_runBoundFunctionV1(w, e, w.ex[e].cache[chunk.Function.Binding].Result, chunk, ref)

\* the PRIMITIVE case of runChunk after resolveValue returned r
StorePrimitive(r, e, ref) ==
    IF r.res # NilData
    THEN Ret(CacheStore(r.w, e, ref, StepCache(r.res, FALSE)), r.res, r.nref, r.err)
    ELSE IF r.err # NilErr
    THEN Ret(CacheStore(r.w, e, ref, StepCache(RawData("unset", NilValue, r.err), FALSE)),
             r.res, r.nref, r.err)
    ELSE r

\* the PROPERTY case of runChunk after resolveValue returned r
StoreProperty(r, e, ref) ==
    IF r.nref # 0 \/ r.err # NilErr THEN r
    ELSE Ret(CacheStore(r.w, e, ref, StepCache(r.res, FALSE)), r.res, r.nref, r.err)

runChunk(w, e, chunk, ref) ==
    CASE chunk.Call = "PRIMITIVE" ->
            StorePrimitive(resolveValue(w, e, chunk.Primitive, ref), e, ref)
      [] chunk.Call = "FUNCTION" -> runFunction(w, e, chunk, ref)
      [] chunk.Call = "PROPERTY" ->
            IF chunk.Id \notin DOMAIN Props
            THEN Ret(Trace(w, "prop", e, ref, "missing"), NilData, 0,
                     HardErr("cannot find property"))
            ELSE StoreProperty(resolveValue(Trace(w, "prop", e, ref, "found"), e,
                                            Props[chunk.Id], ref), e, ref)
      [] OTHER -> Ret(w, NilData, 0, HardErr("unknown chunk type"))

\* what the evaluation of ref finds cached for its receiver
ReceiverSeen(w, e, ref) ==
    IF /\ ref \in 1..Len(w.ex[e].code.Code)
       /\ w.ex[e].code.Code[ref].Call = "FUNCTION"
       /\ CacheHas(w, e, w.ex[e].code.Code[ref].Function.Binding)
    THEN w.ex[e].cache[w.ex[e].code.Code[ref].Function.Binding].Result
    ELSE NilData

runRef(w, e, ref) ==
    IF ref < 1 \/ ref > Len(w.ex[e].code.Code)
    THEN Ret(Panic(Trace(w, "eval", e, ref, "")), NilData, 0, NilErr)
    ELSE IF w.ex[e].code.Code[ref] = NilChunk
    THEN Ret(Trace(w, "eval", e, ref, ""), NilData, 0,
             HardErr("Called a chunk that doesn't exist"))
    ELSE runChunk(TraceD(w, "eval", e, ref, "", ReceiverSeen(w, e, ref)), e,
                  w.ex[e].code.Code[ref], ref)

\* the builtin "add" after its arguments resolved to a; an argument whose edge
\* existed already has no value yet and leaves the call without a result
AddWith(a, e, bind, ref) ==
    IF a.err # NilErr \/ a.nref # 0 THEN Ret(a.w, NilData, a.nref, a.err)
    ELSE IF Len(a.vals) = 1 /\ a.vals[1] = NilData THEN Ret(a.w, NilData, 0, NilErr)
    ELSE IF Len(a.vals) # 1 \/ bind.Value.k # "int" \/ a.vals[1].Value.k # "int"
    THEN Ret(a.w, NilData, 0, HardErr("malformed call"))
    ELSE StoreResult(Ret(a.w, RawData("int", IntValue(bind.Value.v + a.vals[1].Value.v), NilErr),
                         0, NilErr), e, ref)

\* the bound function of a chunk, run on the cached value of its receiver: the
\* block call "{}", a builtin ("add", "fail"), or a field of a resource, which
\* the provider is asked to watch and delivers later by triggerChain
runBoundFunctionV1(w, e, bind, chunk, ref) ==
    IF chunk.Id = "{}"
    THEN IF Len(chunk.Function.Args) = 0
         THEN Ret(Trace(w, "bound", e, ref, chunk.Id), NilData, 0,
                  HardErr("block call without function"))
         ELSE do_runBlock(Trace(w, "bound", e, ref, chunk.Id), e, bind,
                          chunk.Function.Args[1], Tail(chunk.Function.Args), ref)
    ELSE IF chunk.Id = "add"
    THEN AddWith(ResolveArgs(Trace(w, "bound", e, ref, chunk.Id), e, chunk.Function.Args,
                             1, ref, <<>>), e, bind, ref)
    ELSE IF chunk.Id = "fail" \/ ~IsResource(bind.Type)
    THEN Ret(Trace(w, "bound", e, ref, chunk.Id), NilData, 0, HardErr("malformed call"))
    ELSE Ret([Trace(w, "bound", e, ref, chunk.Id) EXCEPT !.ex[e].watcherIds = @ \cup {ref}],
             NilData, 0, NilErr)

\* the closure adding every error it is handed, also one of a code id it
\* has recorded (the fault C30's formula has to detect)
RecordedEveryError(cl, r) ==
    [cl EXCEPT !.blockResult = (r.CodeID :> r.Data) @@ @,
               !.anyError = IF r.Data.Error # NilErr
                            THEN MultiAppend(@, r.Data.Error)
                            ELSE @]

\* the block closure's variables after it recorded result r
Recorded(cl, r) ==
    [cl EXCEPT !.blockResult = (r.CodeID :> r.Data) @@ @,
               !.anyError = IF r.CodeID \notin DOMAIN cl.blockResult /\ r.Data.Error # NilErr
                            THEN MultiAppend(@, r.Data.Error)
                            ELSE @]

\* lines 278-288: the receiver is added under "_" when it is a resource
WithReceiver(cl) ==
    IF cl.bind # NilData /\ IsResource(cl.bind.Type)
    THEN [cl EXCEPT !.blockResult = ("_" :> RawData(cl.bind.Type, cl.bind.Value, NilErr)) @@ @]
    ELSE cl

\* lines 276-300 counting deliveries instead of recorded code ids (the fault
\* C7's formula has to detect)
BlockCountDeliveries(w, child, cl) ==
    IF Len(SelectSeq(w.log, LAMBDA l : l.e = child)) = cl.expected
    THEN do_triggerChain(
             Trace(CacheStore([w EXCEPT !.ex[child].closure = WithReceiver(cl)],
                              cl.parent, cl.ref,
                              StepCache(RawData("block", BlockValue(child), cl.anyError), TRUE)),
                   "resolve", cl.parent, cl.ref, ""),
             cl.parent, cl.ref, RawData("block", BlockValue(child), cl.anyError))
    ELSE [w EXCEPT !.ex[child].closure = cl]

\* lines 276-300, cl being the closure's variables with the result recorded
BlockCount(w, child, cl) ==
    IF Cardinality(DOMAIN cl.blockResult) = cl.expected
    THEN do_triggerChain(
             Trace(CacheStore([w EXCEPT !.ex[child].closure = WithReceiver(cl)],
                              cl.parent, cl.ref,
                              StepCache(RawData("block", BlockValue(child), cl.anyError), TRUE)),
                   "resolve", cl.parent, cl.ref, ""),
             cl.parent, cl.ref, RawData("block", BlockValue(child), cl.anyError))
    ELSE [w EXCEPT !.ex[child].closure = cl]

\* the closure without lines 264-270: the results of a single-value block are
\* counted like those of a multi-field block (the fault C31's formula has to
\* detect)
BlockCallbackCounted(w, child, r) ==
    BlockCount(w, child, Recorded(w.ex[child].closure, r))

\* the callback runBlock hands to the block executor (the closure of lines
\* 263-301); its captured variables live in the child's closure record
BlockCallback(w, child, r) ==
    IF w.ex[child].closure.single
    THEN do_triggerChain(CacheStore(w, w.ex[child].closure.parent, w.ex[child].closure.ref,
                                    StepCache(r.Data, FALSE)),
                         w.ex[child].closure.parent, w.ex[child].closure.ref, r.Data)
    ELSE BlockCount(w, child, Recorded(w.ex[child].closure, r))

RECURSIVE SeedCache(_, _, _)
\* the seeding loop storing args[i] at ref i + 1 (the fault C29's formula has to
\* detect)
SeedCacheShifted(cache, args, i) ==
    IF i > Len(args) THEN cache
    ELSE SeedCache((i + 1 :> StepCache(args[i], TRUE)) @@ cache, args, i + 1)

\* executor.cache.Store(int32(i+1), &stepCache{Result: args[i], IsStatic: true})
SeedCache(cache, args, i) ==
    IF i > Len(args) THEN cache
    ELSE SeedCache((i :> StepCache(args[i], TRUE)) @@ cache, args, i + 1)

\* runFunctionBlock after NewExecutorV1 returned n
StartBlock(w, e, args, n) ==
    IF n.err # NilErr THEN [w |-> w, err |-> n.err]
    ELSE [w |-> do_Run([w EXCEPT
                           !.ex = Append(@, [n.exec EXCEPT !.cache = SeedCache(@, args, 1)]),
                           !.ex[e].blockExecutors = Append(@, Len(w.ex) + 1)],
                       Len(w.ex) + 1),
          err |-> NilErr]

runFunctionBlock(w, e, args, code, closure) ==
    StartBlock(w, e, args, NewExecutorV1(code, "runtime", [kind |-> "block"], closure))

BlockReturn(b) == Ret(b.w, NilData, 0, b.err)

\* runBlock from line 262 on, a being the resolved arguments
RunBlockWith(a, e, bind, fun, ref) ==
    IF a.err # NilErr \/ a.nref # 0 THEN Ret(a.w, a.res, a.nref, a.err)
    ELSE BlockReturn(runFunctionBlock(a.w, e, a.vals, fun,
                        [parent |-> e, ref |-> ref, bind |-> bind,
                         single |-> fun.SingleValue,
                         expected |-> Len(fun.Entrypoints) + Len(fun.Datapoints),
                         blockResult |-> EmptyMap, anyError |-> NilErr]))

runBlock(w, e, bind, functionRef, args, ref) ==
    IF bind # NilData /\ bind.Value = NilValue /\ bind.Type # "nil"
    THEN Ret(w, RawData(bind.Type, NilValue, NilErr), 0, NilErr)
    ELSE IF functionRef.Type # "function"
    THEN Ret(w, NilData, 0, HardErr("called block with wrong function type"))
    ELSE IF functionRef.Value < 1 \/ functionRef.Value > Len(w.ex[e].code.Functions)
    THEN Ret(Panic(w), NilData, 0, NilErr)
    ELSE IF w.ex[e].code.Functions[functionRef.Value] = NilData
    THEN Ret(w, NilData, 0, HardErr("block function is nil"))
    ELSE RunBlockWith(ResolveArgs(w, e, args, 1, ref, IF bind # NilData THEN <<bind>> ELSE <<>>),
                      e, bind, w.ex[e].code.Functions[functionRef.Value], ref)

\* the cache entry at k, NilData when there is none
CacheEntry(w, e, k) == IF CacheHas(w, e, k) THEN w.ex[e].cache[k] ELSE NilData

\* the trace of runChain's error branch: the entry of cur before and after it
Failed(w, after, e, cur, err) ==
    TraceD(after, "failed", e, cur, err.kind,
           [before |-> CacheEntry(w, e, cur), after |-> CacheEntry(after, e, cur), err |-> err])

\* lines 486-496 without the test of line 487: the error replaces the entry of
\* cur (the fault C24's formula has to detect)
ChainStoreErrorAlways(w, e, cur, err) ==
    IF ~IsNotReady(err)
    THEN Failed(w, CacheStore(w, e, cur, StepCache(RawData("unset", NilValue, err), FALSE)),
                e, cur, err)
    ELSE Failed(w, w, e, cur, err)

\* lines 486-496: a failure that is not "not ready" is cached unless the ref
\* has an entry already
ChainStoreError(w, e, cur, err) ==
    IF ~IsNotReady(err) /\ ~CacheHas(w, e, cur)
    THEN Failed(w, CacheStore(w, e, cur, StepCache(RawData("unset", NilValue, err), FALSE)),
                e, cur, err)
    ELSE Failed(w, w, e, cur, err)

\* lines 477-497 without the callbackPoints test of line 479: every result goes
\* to the callback (the fault C18's formula has to detect)
ChainDeliverAll(r, e, cur) ==
    IF r.res # NilData
    THEN do_callback(Trace(r.w, "deliver", e, cur, "res"), e,
                     [Data |-> r.res, CodeID |-> Checksum(r.w.ex[e].code, cur)])
    ELSE IF r.err # NilErr
    THEN ChainStoreError(
             IF cur \in DOMAIN r.w.ex[e].callbackPoints
             THEN do_callback(Trace(r.w, "deliver", e, cur, "err"), e,
                              errorResult(r.err, r.w.ex[e].callbackPoints[cur]))
             ELSE r.w,
             e, cur, r.err)
    ELSE r.w

\* lines 477-497: the result or the error of cur goes to the callback
ChainDeliver(r, e, cur) ==
    IF r.res # NilData
    THEN IF cur \in DOMAIN r.w.ex[e].callbackPoints
         THEN do_callback(Trace(r.w, "deliver", e, cur, "res"), e,
                          [Data |-> r.res, CodeID |-> r.w.ex[e].callbackPoints[cur]])
         ELSE r.w
    ELSE IF r.err # NilErr
    THEN ChainStoreError(
             IF cur \in DOMAIN r.w.ex[e].callbackPoints
             THEN do_callback(Trace(r.w, "deliver", e, cur, "err"), e,
                              errorResult(r.err, r.w.ex[e].callbackPoints[cur]))
             ELSE r.w,
             e, cur, r.err)
    ELSE r.w

\* lines 499-517: where the walk goes after cur
ChainAdvance(w, e, cur, nref, remaining) ==
    IF nref # 0 THEN do_ChainLoop(w, e, nref, remaining)
    ELSE IF Len(CallsLoad(w.ex[e].calls, cur)) # 0
    THEN do_ChainLoop(TraceD(w, "fanout", e, cur, "", CallsLoad(w.ex[e].calls, cur)),
                      e, CallsLoad(w.ex[e].calls, cur)[1],
                      remaining \o Tail(CallsLoad(w.ex[e].calls, cur)))
    ELSE IF Len(remaining) = 0 THEN w
    ELSE do_ChainLoop(w, e, Head(remaining), Tail(remaining))

\* lines 471-517, r being what the cache or runRef gave for cur
ChainStep(r, e, cur, remaining) ==
    IF r.w.panic \/ r.w.over THEN r.w
    ELSE IF r.res = NilData /\ r.nref = 0 /\ r.err = NilErr THEN r.w
    ELSE ChainAdvance(ChainDeliver(r, e, cur), e, cur, r.nref, remaining)

\* lines 462-469 without the cache: the chunk is evaluated at every visit (the
\* fault C28's formula has to detect)
ChainLoadNoCache(w, e, cur) == do_runRef(w, e, cur)

\* lines 462-469: the cached result, or the evaluation of the chunk
ChainLoad(w, e, cur) ==
    IF CacheHas(w, e, cur)
    THEN Ret(Trace(w, "cached", e, cur, ""), w.ex[e].cache[cur].Result, 0, NilErr)
    ELSE do_runRef(w, e, cur)

\* the loop without line 451: the ref is not entered in the step-tracker (the
\* fault C37's formula has to detect)
ChainLoopNoTrack(w, e, nextRef, remaining) ==
    IF nextRef = 0 \/ w.panic \/ w.over THEN w
    ELSE IF w.fuel = 0 THEN [w EXCEPT !.over = TRUE]
    ELSE ChainStep(ChainLoad(Trace([w EXCEPT !.fuel = @ - 1], "visit", e, nextRef, ""),
                             e, nextRef),
                   e, nextRef, remaining)

\* one iteration of runChain's loop at nextRef, then the rest of the walk
ChainLoop(w, e, nextRef, remaining) ==
    IF nextRef = 0 \/ w.panic \/ w.over THEN w
    ELSE IF w.fuel = 0 THEN [w EXCEPT !.over = TRUE]
    ELSE ChainStep(ChainLoad(Trace([w EXCEPT !.fuel = @ - 1,
                                             !.ex[e].stepTracker = @ \cup {nextRef}],
                                    "visit", e, nextRef, ""),
                             e, nextRef),
                   e, nextRef, remaining)

runChain(w, e, start) == do_ChainLoop(Trace(w, "walk", e, start, ""), e, start, <<>>)

RECURSIVE RunChains(_, _, _, _)
\* for i := range nxt { c.runChain(nxt[i]) }
RunChains(w, e, nxt, i) ==
    IF i > Len(nxt) \/ w.panic \/ w.over THEN w
    ELSE RunChains(do_runChain(w, e, nxt[i]), e, nxt, i + 1)

\* triggerChain from line 532 on, walking from the first dependent only (the
\* fault C20's formula has to detect)
TriggerNextFirst(w, e, ref) ==
    IF w.panic \/ w.over THEN w
    ELSE IF ref \in DOMAIN w.ex[e].calls
    THEN IF Len(w.ex[e].calls[ref]) = 0 THEN Panic(w)
         ELSE RunChains(w, e, <<w.ex[e].calls[ref][1]>>, 1)
    ELSE IF ~CacheHas(w, e, ref)
    THEN do_callback(w, e, errorResultMsg("cannot find results to chunk reference",
                                          Checksum([Checksums |-> w.ex[e].callbackPoints], ref)))
    ELSE do_callback(w, e, [Data |-> w.ex[e].cache[ref].Result,
                            CodeID |-> Checksum([Checksums |-> w.ex[e].callbackPoints], ref)])

\* triggerChain from line 532 on
TriggerNext(w, e, ref) ==
    IF w.panic \/ w.over THEN w
    ELSE IF ref \in DOMAIN w.ex[e].calls
    THEN IF Len(w.ex[e].calls[ref]) = 0 THEN Panic(w)
         ELSE RunChains(w, e, w.ex[e].calls[ref], 1)
    ELSE IF ~CacheHas(w, e, ref)
    THEN do_callback(w, e, errorResultMsg("cannot find results to chunk reference",
                                          Checksum([Checksums |-> w.ex[e].callbackPoints], ref)))
    ELSE do_callback(w, e, [Data |-> w.ex[e].cache[ref].Result,
                            CodeID |-> Checksum([Checksums |-> w.ex[e].callbackPoints], ref)])

triggerChain(w, e, ref, data) ==
    TriggerNext(IF ref \in DOMAIN w.ex[e].callbackPoints
                THEN do_callback(Trace(w, "trigger", e, ref, ""), e,
                                 [Data |-> data, CodeID |-> w.ex[e].callbackPoints[ref]])
                ELSE Trace(w, "trigger", e, ref, ""),
                e, ref)

\* the greatest element of a non-empty set of refs
MaxOf(S) == CHOOSE x \in S : \A y \in S : y <= x

RECURSIVE SortDesc(_)
\* the refs with the greatest one last (the fault C26's formula has to detect)
SortGreatestLast(S) ==
    IF S = {} THEN <<>> ELSE SortDesc(S \ {MaxOf(S)}) \o <<MaxOf(S)>>

\* sort.Slice(refs, func(i, j int) bool { return refs[i] > refs[j] })
SortDesc(S) == IF S = {} THEN <<>> ELSE <<MaxOf(S)>> \o SortDesc(S \ {MaxOf(S)})

RECURSIVE RunLoop(_, _, _, _)
\* the loop of Run without the step-tracker test of lines 162-164 (the fault
\* C4's formula has to detect)
RunLoopNoSkip(w, e, refs, i) ==
    IF i > Len(refs) \/ w.panic \/ w.over THEN w
    ELSE RunLoop(do_runChain(Trace(w, "start", e, refs[i], ""), e, refs[i]), e, refs, i + 1)

\* the loop of Run over the sorted refs
RunLoop(w, e, refs, i) ==
    IF i > Len(refs) \/ w.panic \/ w.over THEN w
    ELSE IF refs[i] \in w.ex[e].stepTracker THEN RunLoop(w, e, refs, i + 1)
    ELSE RunLoop(do_runChain(Trace(w, "start", e, refs[i], ""), e, refs[i]), e, refs, i + 1)

Run(w, e) == RunLoop(w, e, SortDesc(DOMAIN w.ex[e].callbackPoints), 1)

RECURSIVE NoRunLoop(_, _, _, _, _)
NoRunLoop(w, e, err, order, i) ==
    IF i > Len(order) THEN w
    ELSE NoRunLoop(do_callback(w, e, errorResult(err, w.ex[e].callbackPoints[order[i]])),
                   e, err, order, i + 1)

\* NoRun returning from inside its loop after the first entry (the fault C10's
\* formula has to detect)
NoRunFirstOnly(w, e, err, order) ==
    do_callback(w, e, errorResult(err, w.ex[e].callbackPoints[order[1]]))

\* NoRun(err); order is the order in which Go ranges over the callbackPoints map
NoRun(w, e, err, order) == NoRunLoop(w, e, err, order, 1)

RECURSIVE UnregisterWatchers(_, _, _, _)
\* c.watcherIds.Range(...): runtime.Unregister(key) for every watcher id
UnregisterWatchers(w, e, keys, failed) ==
    IF Len(keys) = 0 THEN [w |-> w, failed |-> failed]
    ELSE UnregisterWatchers(
             Trace(w, "unwatch", e, Head(keys),
                   IF <<e, Head(keys)>> \in w.fails THEN "fail" ELSE "ok"),
             e, Tail(keys), failed \/ <<e, Head(keys)>> \in w.fails)

RECURSIVE UnregisterBlocks(_, _, _, _)
\* the loop over the block executors returning at the first failure (the fault
\* C8's formula has to detect)
UnregisterNextStop(u, e, i, failed) ==
    IF u.failed THEN [w |-> u.w, failed |-> TRUE]
    ELSE UnregisterBlocks(u.w, e, i + 1, failed)

\* one block executor's Unregister returned u
UnregisterNext(u, e, i, failed) == UnregisterBlocks(u.w, e, i + 1, failed \/ u.failed)

\* for idx := range c.blockExecutors { c.blockExecutors[idx].Unregister() }
UnregisterBlocks(w, e, i, failed) ==
    IF i > Len(w.ex[e].blockExecutors) THEN [w |-> w, failed |-> failed]
    ELSE UnregisterNext(do_Unregister(Trace(w, "unregister", w.ex[e].blockExecutors[i], 0, ""),
                                      w.ex[e].blockExecutors[i]),
                        e, i, failed)

\* Unregister from line 197 on, b being what the loop over the blocks left
UnregisterRest(b, e) ==
    UnregisterWatchers(b.w, e, SortDesc(b.w.ex[e].watcherIds), b.failed)

\* Unregister without lines 184-186: the callback stays in place (the fault
\* C9's formula has to detect)
UnregisterKeepCallback(w, e) ==
    UnregisterRest(UnregisterBlocks(w, e, 1, FALSE), e)

\* Unregister(): failed tells whether it returns a non-nil error
Unregister(w, e) ==
    UnregisterRest(UnregisterBlocks([w EXCEPT !.ex[e].callback = [kind |-> "noop"]],
                                    e, 1, FALSE), e)

Do(w, c) ==
    CASE c.fn = "callback" -> callback(w, c.a[1], c.a[2])
      [] c.fn = "BlockCallback" -> BlockCallback(w, c.a[1], c.a[2])
      [] c.fn = "triggerChain" -> triggerChain(w, c.a[1], c.a[2], c.a[3])
      [] c.fn = "runChain" -> runChain(w, c.a[1], c.a[2])
      [] c.fn = "ChainLoop" -> ChainLoop(w, c.a[1], c.a[2], c.a[3])
      [] c.fn = "runRef" -> runRef(w, c.a[1], c.a[2])
      [] c.fn = "runBlock" -> runBlock(w, c.a[1], c.a[2], c.a[3], c.a[4], c.a[5])
      [] c.fn = "runBoundFunctionV1" -> runBoundFunctionV1(w, c.a[1], c.a[2], c.a[3], c.a[4])
      [] c.fn = "Run" -> Run(w, c.a[1])
      [] c.fn = "Unregister" -> Unregister(w, c.a[1])

\* ------------------------------------------------------------------ inputs
\* sub-programs (blocks); ref 1 is the receiver the parent seeds
FieldsBlock ==
    CodeV1(<<Lit(0), Fn("name", 1, <<>>), Fn("arch", 1, <<>>)>>,
           <<2>>, <<3>>, (2 :> "fa") @@ (3 :> "fb"), <<>>, FALSE)
MixedBlock ==
    CodeV1(<<Lit(0), Fn("add", 1, <<IntPrim(1)>>), Prop("missing")>>,
           <<2, 3>>, <<>>, (2 :> "ma") @@ (3 :> "mb"), <<>>, FALSE)
SingleBlock ==
    CodeV1(<<Lit(0), Fn("add", 1, <<IntPrim(1)>>)>>,
           <<2>>, <<>>, (2 :> "sa"), <<>>, TRUE)
SinglePkgBlock ==
    CodeV1(<<Lit(0), Fn("pkg", 0, <<>>), Fn("version", 2, <<>>)>>,
           <<2>>, <<3>>, (2 :> "pa") @@ (3 :> "pb"), <<>>, TRUE)
\* ref 2 is an argument the parent seeds, and a callback point
ArgsBlock ==
    CodeV1(<<Lit(0), Lit(0), Fn("add", 1, <<RefPrim(2)>>)>>,
           <<3, 2>>, <<>>, (2 :> "aa") @@ (3 :> "ab"), <<>>, FALSE)

Programs ==
    << \* two literals and a bound call over them
       CodeV1(<<Lit(5), Lit(10), Fn("add", 1, <<RefPrim(2)>>)>>,
              <<3>>, <<>>, (3 :> "chk3"), <<>>, FALSE),
       \* one resource
       CodeV1(<<Fn("host", 0, <<>>)>>,
              <<1>>, <<>>, (1 :> "chk1"), <<>>, FALSE),
       \* a resource, a watched field of it and a call on the field that fails
       CodeV1(<<Fn("host", 0, <<>>), Fn("name", 1, <<>>), Fn("fail", 2, <<>>)>>,
              <<3>>, <<1, 2>>, (1 :> "chk1") @@ (2 :> "chk2") @@ (3 :> "chk3"), <<>>, FALSE),
       \* an unknown property and a call bound to it
       CodeV1(<<Prop("missing"), Fn("add", 1, <<IntPrim(1)>>), Prop("p")>>,
              <<2, 3>>, <<1>>, (1 :> "chk1") @@ (2 :> "chk2") @@ (3 :> "chk3"), <<>>, FALSE),
       \* a multi-field block over a resource, and a call on the block
       CodeV1(<<Fn("host", 0, <<>>), Fn("{}", 1, <<FunPrim(1)>>), Fn("add", 2, <<IntPrim(1)>>)>>,
              <<2, 3>>, <<>>, (2 :> "chk2") @@ (3 :> "chk3"), <<FieldsBlock>>, FALSE),
       \* single-value blocks over a literal
       CodeV1(<<Lit(5), Fn("{}", 1, <<FunPrim(1)>>), Fn("{}", 1, <<FunPrim(2)>>),
                Fn("fail", 3, <<>>)>>,
              <<2, 4>>, <<3>>, (2 :> "chk2") @@ (3 :> "chk3") @@ (4 :> "chk4"),
              <<SingleBlock, SinglePkgBlock>>, FALSE),
       \* two blocks over one resource, one with immediate results
       CodeV1(<<Fn("host", 0, <<>>), Fn("{}", 1, <<FunPrim(1)>>), Fn("{}", 1, <<FunPrim(2)>>)>>,
              <<2>>, <<3>>, (2 :> "chk2") @@ (3 :> "chk3"), <<MixedBlock, FieldsBlock>>, FALSE),
       \* a global handler over a property, a resource with an argument
       CodeV1(<<Prop("p"), Fn("typeof", 0, <<RefPrim(1)>>), Fn("pkg", 0, <<RefPrim(2)>>),
                Fn("add", 2, <<RefPrim(1)>>)>>,
              <<3, 4>>, <<2>>, (2 :> "chk2") @@ (3 :> "chk3") @@ (4 :> "chk4"), <<>>, FALSE),
       \* a resource and two watched fields of it
       CodeV1(<<Fn("host", 0, <<>>), Fn("name", 1, <<>>), Fn("arch", 1, <<>>)>>,
              <<2, 3>>, <<>>, (2 :> "chk2") @@ (3 :> "chk3"), <<>>, FALSE),
       \* a resource created from a watched field of another resource, and a
       \* watched field of it
       CodeV1(<<Fn("host", 0, <<>>), Fn("name", 1, <<>>), Fn("pkg", 0, <<RefPrim(2)>>),
                Fn("version", 3, <<>>)>>,
              <<4>>, <<3>>, (3 :> "chk3") @@ (4 :> "chk4"), <<>>, FALSE),
       \* a block called with a receiver and an argument
       CodeV1(<<Lit(5), Fn("{}", 1, <<FunPrim(1), IntPrim(9)>>)>>,
              <<2>>, <<>>, (2 :> "chk2"), <<ArgsBlock>>, FALSE)
    >>

ProviderOutcomes == {"ok", "notready", "fail"}
\* what the provider answers to the CreateResource calls of one operation
Oracles ==
    {<<a>> : a \in ProviderOutcomes} \cup
    {<<a, b>> : a \in {"notready"}, b \in {"ok", "fail"}}

\* ------------------------------------------------------------------ actions
Op(name, e, ref, data, failed) ==
    [name |-> name, e |-> e, ref |-> ref, data |-> data, failed |-> failed]

\* the executors after the caller's NewExecutorV1 returned n
Constructed(n) == IF n.err = NilErr THEN <<n.exec>> ELSE <<>>

Init ==
    /\ \E i \in 1..Len(Programs) :
          ex = Constructed(NewExecutorV1(Programs[i], "runtime", [kind |-> "user"], NoClosure))
    /\ log = <<>>
    /\ tr = <<>>
    /\ panic = FALSE
    /\ over = FALSE
    /\ op = Op("New", 0, 0, NilData, FALSE)
    /\ hist = <<>>
    /\ ctx = <<>>

Commit(w, o) ==
    /\ ex' = w.ex
    /\ log' = w.log
    /\ tr' = w.tr
    /\ panic' = w.panic
    /\ over' = w.over
    /\ op' = o
    /\ hist' = Append(hist, o.name)
    /\ ctx' = ctx

CommitUnregister(u) == Commit(u.w, Op("Unregister", 1, 0, NilData, u.failed))

Live == Len(hist) < MaxOps /\ Len(ex) > 0 /\ ~panic /\ ~over

\* the caller calls Run()
DoRun ==
    /\ Live
    /\ \E prov \in Oracles :
          Commit(Run(World(prov, {}), 1), Op("Run", 1, 0, NilData, FALSE))

Orders(S) ==
    {s \in [1..Cardinality(S) -> S] : \A i, j \in DOMAIN s : s[i] = s[j] => i = j}

\* the caller calls NoRun(err)
DoNoRun ==
    /\ Live
    /\ \E order \in Orders(DOMAIN ex[1].callbackPoints) :
          Commit(NoRun([World(<<"ok">>, {}) EXCEPT !.by = "NoRun"], 1, HardErr("norun"), order),
                 Op("NoRun", 1, 0, RawData("unset", NilValue, HardErr("norun")), FALSE))

WatcherKeys == {<<e, ref>> : e \in 1..Len(ex), ref \in 1..4}

\* the caller calls Unregister()
DoUnregister ==
    /\ Live
    /\ \E fails \in SUBSET {k \in WatcherKeys : k[2] \in ex[k[1]].watcherIds} :
          CommitUnregister(Unregister(World(<<"ok">>, fails), 1))

\* refs the provider still owes a value: a watched field, or a resource whose
\* creation was not ready
IsCreate(chunk) ==
    chunk.Call = "FUNCTION" /\ chunk.Function.Binding = 0 /\ chunk.Id \notin GlobalHandlers
Owed(e) ==
    ex[e].watcherIds \cup
    {ref \in ex[e].stepTracker :
        /\ ref \in 1..Len(ex[e].code.Code)
        /\ IsCreate(ex[e].code.Code[ref])
        /\ ref \notin DOMAIN ex[e].cache}

NotifyData(e, ref) ==
    IF IsCreate(ex[e].code.Code[ref])
    THEN {RawData(IF ex[e].code.Code[ref].Id = "host" THEN "resource:host" ELSE "resource:pkg",
                  ResourceValue(ex[e].code.Code[ref].Id), NilErr)}
    ELSE {RawData("int", IntValue(7), NilErr),
          RawData("int", NilValue, HardErr("field failed"))}

\* the provider delivers the value of a ref it owes: it stores the value and
\* calls triggerChain(ref, value)
ProviderNotify ==
    /\ Live
    /\ \E e \in 1..Len(ex) : \E ref \in Owed(e) : \E data \in NotifyData(e, ref) :
       \E prov \in Oracles :
          Commit(triggerChain(CacheStore(World(prov, {}), e, ref, StepCache(data, FALSE)),
                              e, ref, data),
                 Op("Notify", e, ref, data, FALSE))

Next == DoRun \/ DoNoRun \/ DoUnregister \/ ProviderNotify

Spec == Init /\ [][Next]_vars

\* ------------------------------------------------------------------ properties
\* number of operations of the given name so far
Count(name) == Len(SelectSeq(hist, LAMBDA n : n = name))

\* the invocations, during the last operation, of executor e's callback for code id c
Calls(e, c) == SelectSeq(tr, LAMBDA t : t.ev = "cb" /\ t.e = e /\ t.x = c)

\* the last operation asked the provider for the resource of (e, ref) and was
\* told it is not ready
NotReadyAt(i) == tr[i].ev = "create" /\ tr[i].x = "notready"

\* C1: a chunk whose evaluation during a chain walk fails with a not-ready
\* error causes no callback invocation for its ref, entrypoints and datapoints
\* included: the walk never hands such a failure to the callback.
C1_NotReadySilent ==
    \A i \in 1..Len(tr) :
        NotReadyAt(i) =>
            ~(/\ i + 2 <= Len(tr)
              /\ tr[i + 1].ev = "deliver" /\ tr[i + 1].e = tr[i].e /\ tr[i + 1].ref = tr[i].ref
              /\ tr[i + 2].ev = "cb" /\ tr[i + 2].e = tr[i].e
              /\ IsNotReady(tr[i + 2].data.Error))

\* C2: no cache entry of any executor holds a value whose error is a not-ready
\* error, at the failing ref or at any other ref (a parent ref resolved from a
\* block's results included).
C2_NotReadyNeverCached ==
    \A e \in 1..Len(ex) : \A r \in DOMAIN ex[e].cache :
        ~IsNotReady(ex[e].cache[r].Result.Error)

\* the case of C3: ref of the caller's executor is a callback point that
\* creates a resource and has no registered dependents
LoneResource(ref) ==
    /\ Len(ex) > 0
    /\ ref \in DOMAIN ex[1].callbackPoints
    /\ IsCreate(ex[1].code.Code[ref])
    /\ ref \notin DOMAIN ex[1].calls

\* C3: for an entrypoint whose resource call was not ready during Run and that
\* has no dependents, Run delivers nothing for it, and the later
\* triggerChain(ref, v) invokes the callback for its code id exactly once, with v.
C3_RetryDeliversOnce ==
    /\ op.name = "Run" =>
          \A i \in 1..Len(tr) :
              (NotReadyAt(i) /\ tr[i].e = 1 /\ LoneResource(tr[i].ref)) =>
                  Calls(1, ex[1].callbackPoints[tr[i].ref]) = <<>>
    /\ (op.name = "Notify" /\ op.e = 1 /\ LoneResource(op.ref)) =>
          /\ Len(Calls(1, ex[1].callbackPoints[op.ref])) = 1
          /\ Calls(1, ex[1].callbackPoints[op.ref])[1].data = op.data

\* the second half of C3 alone: the retry's delivery
C3_NotifyOnce ==
    (op.name = "Notify" /\ op.e = 1 /\ LoneResource(op.ref)) =>
        Len(Calls(1, ex[1].callbackPoints[op.ref])) = 1

\* C4: a second Run() on the same executor starts no chain walk and delivers
\* no callback; every callback point is in the step-tracker once Run returned.
C4_SecondRunIdle ==
    op.name = "Run" =>
        /\ DOMAIN ex[1].callbackPoints \subseteq ex[1].stepTracker
        /\ Count("Run") >= 2 => tr = <<>>

\* a second Run() on an executor whose first Run() delivered results
C4_Witness ==
    /\ op.name = "Run" /\ Count("Run") >= 2
    /\ \E i \in 1..Len(log) : log[i].to = "user" /\ log[i].Data.Error = NilErr

\* the evaluation of a call whose receiver holds a hard error
ReceiverFailed(i) ==
    /\ tr[i].ev = "eval"
    /\ tr[i].data # NilData
    /\ tr[i].data.Error # NilErr
    /\ ~IsNotReady(tr[i].data.Error)

\* C5: when the walk reaches a call D bound to a receiver R that holds a hard
\* error, D's own bound function does not run, the same error is cached at D,
\* and, if D is a callback point, that error is delivered for D's code id.
C5_ErrorInherited ==
    \A i \in 1..Len(tr) :
        ReceiverFailed(i) =>
            /\ ~(i + 1 <= Len(tr) /\ tr[i + 1].ev = "bound")
            /\ tr[i].ref \in DOMAIN ex[tr[i].e].cache
            /\ ex[tr[i].e].cache[tr[i].ref].Result = tr[i].data
            /\ tr[i].ref \in DOMAIN ex[tr[i].e].callbackPoints =>
                  /\ i + 2 <= Len(tr)
                  /\ tr[i + 1] = Ev("deliver", tr[i].e, tr[i].ref, "err", NilData)
                  /\ tr[i + 2].ev = "cb" /\ tr[i + 2].e = tr[i].e
                  /\ tr[i + 2].x = ex[tr[i].e].callbackPoints[tr[i].ref]
                  /\ tr[i + 2].data.Error = tr[i].data.Error

\* a call at a callback point was reached while its receiver held a hard error
C5_Witness ==
    \E i \in 1..Len(tr) :
        /\ ReceiverFailed(i)
        /\ tr[i].ref \in DOMAIN ex[tr[i].e].callbackPoints
        /\ tr[i].data.Error.kind = "hard"

\* the errors an evaluation raises (not those a provider or NoRun hands in)
EvaluationErrors ==
    {"malformed call", "cannot find property", "create failed", "missing argument",
     "block call without function", "called block with wrong function type",
     "block function is nil", "unknown chunk type", "Called a chunk that doesn't exist"}

\* the deliveries of an evaluation error to the caller's callback for code id c
ErrorCalls(c) ==
    SelectSeq(log, LAMBDA l : /\ l.e = 1 /\ l.CodeID = c
                              /\ l.Data.Error.kind = "hard"
                              /\ l.Data.Error.msg \in EvaluationErrors)

\* C6: a hard evaluation error at an entrypoint or datapoint is delivered to
\* the callback for that ref's code id exactly once, however many later walks
\* pass through the ref: a cached error is never delivered again.
C6_ErrorOnce ==
    Len(ex) > 0 =>
        \A ref \in DOMAIN ex[1].callbackPoints :
            Len(ErrorCalls(ex[1].callbackPoints[ref])) <= 1

\* the code ids recorded by the closure of block executor c
RecordedIds(c) == DOMAIN ex[c].closure.blockResult \ {"_"}

\* the parent ref of block executor c holds c's composite value
Resolved(c) ==
    /\ ex[c].closure.ref \in DOMAIN ex[ex[c].closure.parent].cache
    /\ ex[ex[c].closure.parent].cache[ex[c].closure.ref].Result.Value = BlockValue(c)

\* the executors of multi-field blocks
MultiBlocks == {c \in 1..Len(ex) : ex[c].closure.parent # 0 /\ ~ex[c].closure.single}

\* C7: the parent ref of a multi-field block holds the composite value only
\* when results for exactly N distinct code ids are recorded, N being the
\* number of entrypoints and datapoints of the sub-program; a repeated delivery
\* of a recorded code id does not raise the count.
C7_BlockCount ==
    \A c \in MultiBlocks :
        /\ Cardinality(RecordedIds(c)) <= ex[c].closure.expected
        /\ Resolved(c) <=> Cardinality(RecordedIds(c)) = ex[c].closure.expected
        /\ \A i \in 1..Len(tr) :
              (tr[i].ev = "resolve" /\ tr[i].e = ex[c].closure.parent
                                    /\ tr[i].ref = ex[c].closure.ref)
              => Cardinality(RecordedIds(c)) = ex[c].closure.expected

\* a block resolved although one of its code ids had been delivered twice
\* before the other arrived
C7_Witness ==
    \E c \in MultiBlocks :
        /\ Resolved(c)
        /\ ex[c].closure.expected = 2
        /\ \E i, j, k \in 1..Len(log) :
              /\ i < j /\ j < k
              /\ log[i].e = c /\ log[j].e = c /\ log[k].e = c
              /\ log[i].CodeID = log[j].CodeID
              /\ log[k].CodeID # log[i].CodeID

\* the block executors of executor e
Children(e) == {ex[e].blockExecutors[i] : i \in 1..Len(ex[e].blockExecutors)}

\* the last operation called Unregister() on executor e
TornDown(e) == e = 1 \/ \E i \in 1..Len(tr) : tr[i].ev = "unregister" /\ tr[i].e = e

\* the last operation called runtime.Unregister for watcher id k of executor e
Cancelled(e, k) == \E i \in 1..Len(tr) : tr[i].ev = "unwatch" /\ tr[i].e = e /\ tr[i].ref = k

\* C8: Unregister() attempts the teardown of every block executor and the
\* cancellation of every watcher id, whatever the earlier attempts returned,
\* and returns an error exactly when one of these attempts failed.
C8_TeardownTotal ==
    op.name = "Unregister" =>
        /\ \A e \in 1..Len(ex) :
              TornDown(e) =>
                  /\ \A c \in Children(e) : TornDown(c)
                  /\ \A k \in ex[e].watcherIds : Cancelled(e, k)
        /\ op.failed <=> \E i \in 1..Len(tr) : tr[i].ev = "unwatch" /\ tr[i].x = "fail"

\* an Unregister() that returned an error and still tore down a block executor
\* after the failed attempt
C8_Witness ==
    /\ op.name = "Unregister" /\ op.failed
    /\ \E i, j \in 1..Len(tr) :
          /\ i < j
          /\ tr[i].ev = "unwatch" /\ tr[i].x = "fail"
          /\ tr[j].ev = "unregister"

\* the invocations of the callback the caller supplied at construction
UserLog == SelectSeq(log, LAMBDA l : l.to = "user")

\* C9: once Unregister() has returned, no later walk or triggerChain on the
\* executor or on one of its block executors invokes the caller's callback.
C9_SilentAfterUnregister ==
    [][Count("Unregister") > 0 => UserLog' = UserLog]_vars

\* after Unregister(), a provider notification to a block executor was
\* absorbed by the block's decommissioned callback
C9_Witness ==
    /\ Count("Unregister") > 0
    /\ \E i \in 1..Len(log) : log[i].to = "noop" /\ log[i].e > 1
    /\ op.name = "Notify"

\* the entries the step appended to the callback log
NewCalls == SubSeq(log', Len(log) + 1, Len(log'))

\* C10: NoRun(err) invokes the callback exactly once per callback point, with
\* err and that point's code id, and evaluates nothing: the executors (cache,
\* dependency graph, step-tracker, block executors) stay as they are and the
\* provider is not called.
C10_NoRunFrame ==
    [][(op'.name = "NoRun" /\ Len(hist') = Len(hist) + 1) =>
          /\ ex' = ex
          /\ panic' = panic
          /\ \A i \in 1..Len(tr') : tr'[i].ev = "cb"
          /\ SubSeq(log', 1, Len(log)) = log
          /\ Len(NewCalls) = Cardinality(DOMAIN ex[1].callbackPoints)
          /\ \A ref \in DOMAIN ex[1].callbackPoints :
                Len(SelectSeq(NewCalls,
                        LAMBDA l : /\ l.e = 1
                                   /\ l.CodeID = ex[1].callbackPoints[ref]
                                   /\ l.Data.Error = op'.data.Error))
                = Cardinality({r \in DOMAIN ex[1].callbackPoints :
                                  ex[1].callbackPoints[r] = ex[1].callbackPoints[ref]})
    ]_vars

\* NoRun on an executor with several callback points that had already run
C10_Witness ==
    /\ op.name = "NoRun"
    /\ Cardinality(DOMAIN ex[1].callbackPoints) >= 2
    /\ ex[1].stepTracker # {}
    /\ Len(log) >= 2 /\ log[Len(log)].Data.Error = op.data.Error

\* ------------------------------------------------------------------ construction
\* the refs a program under construction may name, 0 being no valid ref
MaxRef == 2
RefLists == {<<>>} \cup {<<a>> : a \in 0..MaxRef} \cup {<<a, b>> : a, b \in 0..MaxRef}
ChecksumMaps ==
    UNION {[S -> {"", "sum"}] : S \in SUBSET (0..MaxRef)}

\* the arguments of NewExecutorV1: a runtime or nil, a program or nil
NewInputs ==
    {[runtime |-> r, code |-> c] :
        r \in {"runtime", "nil"},
        c \in {NilData} \cup
              {CodeV1(<<Lit(1), Lit(2)>>, eps, dps, sums, <<>>, FALSE) :
                  eps \in RefLists, dps \in RefLists, sums \in ChecksumMaps}}

InitNew ==
    /\ \E i \in NewInputs : op = [name |-> "args", runtime |-> i.runtime, code |-> i.code]
    /\ ex = <<>>
    /\ log = <<>>
    /\ tr = <<>>
    /\ panic = FALSE
    /\ over = FALSE
    /\ hist = <<>>
    /\ ctx = <<>>

\* what the caller gets back from NewExecutorV1: n.err and, without error, n.exec
Returned(n) ==
    /\ ex' = Constructed(n)
    /\ op' = [name |-> "New", runtime |-> op.runtime, code |-> op.code, err |-> n.err]
    /\ hist' = Append(hist, "New")
    /\ UNCHANGED <<log, tr, panic, over, ctx>>

\* the caller calls NewExecutorV1(code, runtime, props, callback)
DoNew ==
    /\ op.name = "args"
    /\ Returned(NewExecutorV1(op.code, op.runtime, [kind |-> "user"], NoClosure))

NextNew == DoNew

SpecNew == InitNew /\ [][NextNew]_vars

\* the refs of a list
Range(s) == {s[i] : i \in 1..Len(s)}

\* the entrypoint and datapoint refs of a program
PointRefs(code) == Range(code.Entrypoints) \cup Range(code.Datapoints)

\* the conditions under which construction has to fail
Invalid(runtime, code) ==
    \/ runtime = "nil"
    \/ code = NilData
    \/ \E ref \in PointRefs(code) : ref \notin DOMAIN code.Checksums \/ code.Checksums[ref] = ""
    \/ \E ref \in PointRefs(code) : ref < 1
    \/ PointRefs(code) = {}

\* C11: construction returns an error and no executor exactly when the runtime
\* is nil, the program is nil, an entrypoint or datapoint ref has an empty
\* checksum or is < 1, or there is no entrypoint and no datapoint; otherwise the
\* callback record maps exactly the entrypoint and datapoint refs to their
\* checksums.
C11_Construction ==
    op.name = "New" =>
        /\ op.err # NilErr <=> Invalid(op.runtime, op.code)
        /\ op.err # NilErr => ex = <<>>
        /\ op.err = NilErr =>
              /\ Len(ex) = 1
              /\ DOMAIN ex[1].callbackPoints = PointRefs(op.code)
              /\ \A ref \in PointRefs(op.code) :
                    ex[1].callbackPoints[ref] = op.code.Checksums[ref]

\* a construction that succeeded with an entrypoint and a different datapoint
C11_Witness ==
    /\ op.name = "New" /\ op.err = NilErr
    /\ Len(ex) = 1
    /\ Cardinality(DOMAIN ex[1].callbackPoints) = 2
    /\ Len(op.code.Entrypoints) = 1 /\ Len(op.code.Datapoints) = 1

\* a construction refused only because a datapoint ref is below 1
C11_WitnessRefused ==
    /\ op.name = "New" /\ op.err = HardErr("invalid ref number")
    /\ 0 \in Range(op.code.Datapoints) /\ 0 \notin Range(op.code.Entrypoints)

\* ------------------------------------------------------------------ dependency graph
\* calls to CallsV1.Store per behaviour, and the refs they connect
MaxStores == 3
MaxNode == 3

InitCalls ==
    /\ ex = Constructed(NewExecutorV1(Programs[1], "runtime", [kind |-> "user"], NoClosure))
    /\ op = Op("New", 0, 0, NilData, FALSE)
    /\ log = <<>>
    /\ tr = <<>>
    /\ panic = FALSE
    /\ over = FALSE
    /\ hist = <<>>
    /\ ctx = <<>>

\* c.calls.Store(k, v) answered s; tr keeps every call of the behaviour
Stored(k, v, s) ==
    /\ ex' = [ex EXCEPT ![1].calls = s.calls]
    /\ op' = [name |-> "Store", k |-> k, v |-> v, exists |-> s.exists,
              before |-> ex[1].calls]
    /\ tr' = Append(tr, Ev("store", 1, k, v, NilData))
    /\ hist' = Append(hist, "Store")
    /\ UNCHANGED <<log, panic, over, ctx>>

DoStore ==
    /\ Len(hist) < MaxStores
    /\ \E k \in 1..MaxNode, v \in 1..MaxNode : Stored(k, v, CallsStore(ex[1].calls, k, v))

\* c.calls.Load(k)
DoLoad ==
    /\ op.name # "Load"
    /\ \E k \in 1..MaxNode :
          op' = [name |-> "Load", k |-> k, v |-> CallsLoad(ex[1].calls, k),
                 ok |-> k \in DOMAIN ex[1].calls]
    /\ UNCHANGED <<ex, log, tr, panic, over, hist, ctx>>

NextCalls == DoStore \/ DoLoad

SpecCalls == InitCalls /\ [][NextCalls]_vars

\* the pair was stored by a call before the last one
StoredBefore(k, v) ==
    \E i \in 1..(Len(tr) - 1) : tr[i].ev = "store" /\ tr[i].ref = k /\ tr[i].x = v

\* C12: Store answers "already existed" exactly when an earlier call stored
\* the pair, and then leaves the graph as it is; otherwise it appends dst to
\* src's list; no list ever holds a dst twice, and Load returns the list.
C12_EdgeDedup ==
    /\ op.name = "Store" =>
          /\ op.exists <=> StoredBefore(op.k, op.v)
          /\ op.exists => ex[1].calls = op.before
          /\ ~op.exists =>
                /\ ex[1].calls[op.k] = Append(CallsLoad(op.before, op.k), op.v)
                /\ \A k \in DOMAIN ex[1].calls \ {op.k} :
                      k \in DOMAIN op.before /\ ex[1].calls[k] = op.before[k]
    /\ Len(ex) > 0 =>
          \A k \in DOMAIN ex[1].calls :
              \A i, j \in 1..Len(ex[1].calls[k]) :
                  ex[1].calls[k][i] = ex[1].calls[k][j] => i = j
    /\ op.name = "Load" =>
          /\ op.ok <=> \E i \in 1..Len(tr) : tr[i].ev = "store" /\ tr[i].ref = op.k
          /\ \A v \in 1..MaxNode :
                Cardinality({i \in 1..Len(op.v) : op.v[i] = v})
                = IF \E i \in 1..Len(tr) : tr[i].ev = "store" /\ tr[i].ref = op.k /\ tr[i].x = v
                  THEN 1 ELSE 0

\* a pair stored again after another dst was added to the same src
C12_Witness ==
    /\ op.name = "Store" /\ op.exists
    /\ Len(ex[1].calls[op.k]) >= 2
    /\ ex[1].calls[op.k][Len(ex[1].calls[op.k])] = op.v

\* ------------------------------------------------------------------ static results
\* the value cached at ref r of executor e; a composite block value holds the
\* closure's result map by reference, so its contents are read from the closure
Held(e, r) ==
    IF ex[e].cache[r].Result.Value.k = "blockmap"
    THEN [entry |-> ex[e].cache[r],
          map |-> ex[ex[e].cache[r].Result.Value.v].closure.blockResult]
    ELSE [entry |-> ex[e].cache[r], map |-> EmptyMap]

\* C13: once the cache holds an entry with IsStatic = true for a ref, no later
\* operation (walk, triggerChain, resource creation, block result delivery)
\* changes the value cached at that ref.
C13_StaticFrozen ==
    [][\A e \in 1..Len(ex) : \A r \in DOMAIN ex[e].cache :
          ex[e].cache[r].IsStatic => Held(e, r)' = Held(e, r)]_vars

\* event i of the last operation is an invocation of executor e's callback for
\* the code id of ref
CallAt(i, e, ref) ==
    /\ i <= Len(tr)
    /\ tr[i].ev = "cb" /\ tr[i].e = e /\ tr[i].x = ex[e].callbackPoints[ref]

\* C14: when a callback point's cached value becomes static and triggerChain
\* is called for it, the callback is invoked at most once for its code id,
\* also when the ref has no registered dependents.
C14_StaticDeliveredOnce ==
    \A i \in 1..Len(tr) :
        (/\ tr[i].ev = "resolve"
         /\ tr[i].ref \in DOMAIN ex[tr[i].e].callbackPoints
         /\ i + 1 <= Len(tr) /\ tr[i + 1].ev = "trigger")
        => ~(CallAt(i + 2, tr[i].e, tr[i].ref) /\ CallAt(i + 3, tr[i].e, tr[i].ref))

\* ------------------------------------------------------------------ ordering
\* the calls of executor e that are bound to a receiver and have code id c
BoundPoints(e, c) ==
    {d \in DOMAIN ex[e].callbackPoints :
        /\ ex[e].callbackPoints[d] = c
        /\ d \in 1..Len(ex[e].code.Code)
        /\ ex[e].code.Code[d].Call = "FUNCTION"
        /\ ex[e].code.Code[d].Function.Binding # 0}

\* the receiver of every bound call with the code id of callback l was cached
\* when l was invoked
ReceiverFirst(l) ==
    \A d \in BoundPoints(l.e, l.CodeID) : ex[l.e].code.Code[d].Function.Binding \in l.cached

\* C15 as stated: no callback for the code id of a call D bound to receiver R
\* (value or error) is invoked, in any execution, before R had a cache entry.
C15_DependentAfterReceiver ==
    \A i \in 1..Len(log) : ReceiverFirst(log[i])

\* C15 amended: no chain walk and no triggerChain invokes the callback for the code
\* id of a call D bound to receiver R before R had a cache entry; NoRun(err)
\* delivers err for every callback point whatever is cached.
C15_WalkAfterReceiver ==
    \A i \in 1..Len(log) : log[i].by # "NoRun" => ReceiverFirst(log[i])

\* a bound call was delivered by a walk that first had to connect to its
\* receiver and evaluate it
C15_Witness ==
    \E i \in 1..Len(log) :
        /\ log[i].by = "walk" /\ log[i].e = 1
        /\ BoundPoints(1, log[i].CodeID) # {}
        /\ \E d \in BoundPoints(1, log[i].CodeID) :
              /\ ex[1].code.Code[d].Function.Binding \in DOMAIN ex[1].calls
              /\ \E j \in 1..Len(ex[1].calls[ex[1].code.Code[d].Function.Binding]) :
                    ex[1].calls[ex[1].code.Code[d].Function.Binding][j] = d

\* ------------------------------------------------------------------ scenarios
\* the executor runs ref1 = 5, ref2 = 10, ref3 = ref1.add(ref2), entrypoint ref3
SumProgram == Len(ex) > 0 /\ ex[1].code = Programs[1]

\* only Run() has been called, at least once
OnlyRun == Len(hist) > 0 /\ \A i \in 1..Len(hist) : hist[i] = "Run"

\* C18: for two literals and a call bound to the first with the second as
\* argument, the call being the only entrypoint, Run() invokes the callback
\* exactly once in total: for ref3's code id with the call's result, never for
\* ref1 or ref2.
C18_SumDeliveredOnce ==
    (SumProgram /\ OnlyRun) =>
        /\ Len(log) = 1
        /\ log[1].e = 1 /\ log[1].to = "user"
        /\ log[1].CodeID = "chk3"
        /\ log[1].Data = RawData("int", IntValue(15), NilErr)

\* Run() returned on that program after walking ref3, ref1 and ref2
C18_Witness ==
    /\ SumProgram /\ hist = <<"Run">>
    /\ ex[1].stepTracker = {1, 2, 3}
    /\ DOMAIN ex[1].cache = {1, 2, 3}

\* a later event of the last operation is a visit of ref by executor e's walk
VisitedAfter(i, e, ref) ==
    \E m \in (i + 1)..Len(tr) : tr[m].ev = "visit" /\ tr[m].e = e /\ tr[m].ref = ref

\* C19: when a walked ref with k >= 2 registered dependents yields a value or
\* an error, the same walk visits all k dependents: the first one next, the
\* others afterwards, however the earlier branches end.
C19_FanOutComplete ==
    (~panic /\ ~over) =>
        \A i \in 1..Len(tr) :
            (tr[i].ev = "fanout" /\ Len(tr[i].data) >= 2) =>
                \A j \in 1..Len(tr[i].data) : VisitedAfter(i, tr[i].e, tr[i].data[j])

\* ------------------------------------------------------------------ triggerChain
RECURSIVE IsSubSeq(_, _)
\* the elements of a occur in b in the same order
IsSubSeq(a, b) ==
    IF a = <<>> THEN TRUE
    ELSE IF b = <<>> THEN FALSE
    ELSE IF Head(a) = Head(b) THEN IsSubSeq(Tail(a), Tail(b))
    ELSE IsSubSeq(a, Tail(b))

\* the start refs of the walks of executor e in a sequence of events
WalkStarts(t, e) ==
    [i \in 1..Len(SelectSeq(t, LAMBDA v : v.ev = "walk" /\ v.e = e)) |->
        SelectSeq(t, LAMBDA v : v.ev = "walk" /\ v.e = e)[i].ref]

\* the invocations of executor e's callback in a sequence of events
CallsOf(t, e) == SelectSeq(t, LAMBDA v : v.ev = "cb" /\ v.e = e)

\* the step is a provider's triggerChain(op'.ref, op'.data) that ran to its end
Triggered ==
    /\ op'.name = "Notify" /\ Len(hist') = Len(hist) + 1
    /\ ~panic' /\ ~over'

\* C20: triggerChain(ref, v) never evaluates ref's own chunk; with registered
\* dependents it starts a walk at every one of them, in registration order,
\* and delivers nothing from the cache; without dependents it starts no walk
\* and hands the cached result of ref to the callback.
C20_TriggerChain ==
    [][Triggered =>
          /\ tr'[1] = Ev("trigger", op'.e, op'.ref, "", NilData)
          /\ \A i \in 1..Len(tr') :
                ~(tr'[i].ev = "eval" /\ tr'[i].e = op'.e /\ tr'[i].ref = op'.ref)
          /\ op'.ref \in DOMAIN ex[op'.e].calls =>
                /\ WalkStarts(tr', op'.e) # <<>>
                /\ WalkStarts(tr', op'.e)[1] = ex[op'.e].calls[op'.ref][1]
                /\ IsSubSeq(ex[op'.e].calls[op'.ref], WalkStarts(tr', op'.e))
          /\ op'.ref \notin DOMAIN ex[op'.e].calls =>
                /\ WalkStarts(tr', op'.e) = <<>>
                /\ Len(CallsOf(tr', op'.e))
                   = IF op'.ref \in DOMAIN ex[op'.e].callbackPoints THEN 2 ELSE 1
                /\ CallsOf(tr', op'.e)[Len(CallsOf(tr', op'.e))].data
                   = ex'[op'.e].cache[op'.ref].Result
                /\ CallsOf(tr', op'.e)[Len(CallsOf(tr', op'.e))].x
                   = Checksum([Checksums |-> ex[op'.e].callbackPoints], op'.ref)
    ]_vars

\* a triggerChain on a ref with two registered dependents walked both
C20_Witness ==
    /\ op.name = "Notify" /\ ~panic /\ ~over
    /\ Len(CallsLoad(ex[op.e].calls, op.ref)) >= 2
    /\ WalkStarts(tr, op.e) = CallsLoad(ex[op.e].calls, op.ref)

\* a triggerChain on a ref without dependents delivered the cached result
C20_WitnessLeaf ==
    /\ op.name = "Notify" /\ ~panic /\ ~over
    /\ op.ref \notin DOMAIN ex[op.e].calls
    /\ op.ref \in DOMAIN ex[op.e].callbackPoints
    /\ Len(CallsOf(tr, op.e)) = 2
    /\ CallsOf(tr, op.e)[2].data = ex[op.e].cache[op.ref].Result

\* ------------------------------------------------------------------ concurrent contexts
\* Goroutines calling into one executor: contexts 1 and 2 call Run(), context 3
\* is the provider delivering the resource of ref 1. Each step below holds one
\* access to the shared cache, graph or lock; the provider answers "not ready"
\* to CreateResource and delivers the resource through context 3.
Runners == {1, 2}
ProviderCtx == 3
Contexts == Runners \cup {ProviderCtx}

\* a context: pc its position, todo the refs Run() has still to start from,
\* cur and remaining the variables of runChain, nxt the dependents triggerChain
\* has still to walk and data its argument, list and exists the variables of
\* CallsV1.Store, told what its Store calls have returned so far
Context(pc, todo) ==
    [pc |-> pc, todo |-> todo, cur |-> 0, remaining |-> <<>>, nxt |-> <<>>,
     list |-> <<>>, exists |-> FALSE, data |-> NilData, told |-> <<>>]

InitConc ==
    /\ ex = Constructed(NewExecutorV1(Programs[9], "runtime", [kind |-> "user"], NoClosure))
    /\ \E second \in {"run", "done"} :
          ctx = [locker |-> 0,
                 t |-> <<Context("run", SortDesc({2, 3})),
                         Context(second, SortDesc({2, 3})),
                         Context("pstore", <<>>)>>]
    /\ log = <<>>
    /\ tr = <<>>
    /\ panic = FALSE
    /\ over = FALSE
    /\ op = Op("New", 0, 0, NilData, FALSE)
    /\ hist = <<>>

\* the step of context c left the world w and the context as t (the trace is
\* not kept: the order of the contexts' steps is in ctx.t[c].told)
Stepped(c, w, t) ==
    /\ ex' = w.ex
    /\ log' = w.log
    /\ tr' = tr
    /\ panic' = w.panic
    /\ over' = w.over
    /\ ctx' = [ctx EXCEPT !.t[c] = t]
    /\ UNCHANGED <<op, hist>>

At(c, pc) == ctx.t[c].pc = pc

\* the receiver of the call at ref
Receiver(ref) == ex[1].code.Code[ref].Function.Binding

\* where a context goes when its runChain call returns
Back(c) == IF c = ProviderCtx THEN "pwalk" ELSE "run"

\* Run(), lines 160-168: the next ref that is not in the step-tracker
RunNext(c) ==
    /\ At(c, "run") /\ c \in Runners
    /\ IF ctx.t[c].todo = <<>>
       THEN Stepped(c, World(<<"notready">>, {}), [ctx.t[c] EXCEPT !.pc = "done"])
       ELSE IF Head(ctx.t[c].todo) \in ex[1].stepTracker
       THEN Stepped(c, World(<<"notready">>, {}), [ctx.t[c] EXCEPT !.todo = Tail(@)])
       ELSE Stepped(c, Trace(World(<<"notready">>, {}), "walk", 1, Head(ctx.t[c].todo), ""),
                    [ctx.t[c] EXCEPT !.todo = Tail(@), !.cur = Head(ctx.t[c].todo),
                                     !.remaining = <<>>, !.pc = "visit"])

\* runChain, lines 450-466 and 478-481: track cur, load it from the cache
\* and deliver what was cached
Visit(c) ==
    /\ At(c, "visit")
    /\ IF ctx.t[c].cur \in DOMAIN ex[1].cache
       THEN Stepped(c,
                ChainDeliver(
                    ChainLoad(Trace([World(<<"notready">>, {}) EXCEPT
                                        !.ex[1].stepTracker = @ \cup {ctx.t[c].cur}],
                                    "visit", 1, ctx.t[c].cur, ""),
                              1, ctx.t[c].cur),
                    1, ctx.t[c].cur),
                [ctx.t[c] EXCEPT !.pc = "adv"])
       ELSE Stepped(c,
                Trace([World(<<"notready">>, {}) EXCEPT
                          !.ex[1].stepTracker = @ \cup {ctx.t[c].cur}],
                      "visit", 1, ctx.t[c].cur, ""),
                [ctx.t[c] EXCEPT !.pc = "eval"])

\* cur is a call whose receiver has no cache entry (runFunction, lines 384-386)
Waits(ref) == Receiver(ref) # 0 /\ Receiver(ref) \notin DOMAIN ex[1].cache

\* runChain, lines 471-497, r being what runRef returned
Evaluated(c, r) ==
    IF r.res = NilData /\ r.nref = 0 /\ r.err = NilErr
    THEN Stepped(c, r.w, [ctx.t[c] EXCEPT !.pc = Back(c)])
    ELSE Stepped(c, ChainDeliver(r, 1, ctx.t[c].cur), [ctx.t[c] EXCEPT !.pc = "adv"])

\* runChain, line 468: runRef(cur); a call whose receiver is missing goes on
\* to connectRef
Eval(c) ==
    /\ At(c, "eval")
    /\ IF Waits(ctx.t[c].cur)
       THEN Stepped(c, World(<<"notready">>, {}), [ctx.t[c] EXCEPT !.pc = "lock"])
       ELSE Evaluated(c, runRef(World(<<"notready">>, {}), 1, ctx.t[c].cur))

\* CallsV1.Store, line 28 without waiting for the lock (the fault C16's formula
\* has to detect)
LockNoWait(c) ==
    /\ At(c, "lock")
    /\ ctx' = [ctx EXCEPT !.locker = c, !.t[c].pc = "scan"]
    /\ UNCHANGED <<ex, log, tr, panic, over, op, hist>>

\* CallsV1.Store, line 28: c.locker.Lock()
Lock(c) ==
    /\ At(c, "lock")
    /\ ctx.locker = 0
    /\ ctx' = [ctx EXCEPT !.locker = c, !.t[c].pc = "scan"]
    /\ UNCHANGED <<ex, log, tr, panic, over, op, hist>>

\* CallsV1.Store, lines 31-40: read the list of k and look for v
Scan(c) ==
    /\ At(c, "scan")
    /\ ctx' = [ctx EXCEPT
                  !.t[c].list = CallsLoad(ex[1].calls, Receiver(ctx.t[c].cur)),
                  !.t[c].exists =
                      CallsStore(ex[1].calls, Receiver(ctx.t[c].cur), ctx.t[c].cur).exists,
                  !.t[c].pc =
                      IF CallsStore(ex[1].calls, Receiver(ctx.t[c].cur), ctx.t[c].cur).exists
                      THEN "unlock" ELSE "append"]
    /\ UNCHANGED <<ex, log, tr, panic, over, op, hist>>

\* CallsV1.Store, lines 42-43: c.calls[k] = append(calls, v)
AppendEdge(c) ==
    /\ At(c, "append")
    /\ ex' = [ex EXCEPT ![1].calls =
                 (Receiver(ctx.t[c].cur) :> Append(ctx.t[c].list, ctx.t[c].cur)) @@ @]
    /\ ctx' = [ctx EXCEPT !.t[c].pc = "unlock"]
    /\ UNCHANGED <<log, tr, panic, over, op, hist>>

\* the contexts inside a Store call for the edge to v
InStore(v) ==
    {c \in Contexts : ctx.t[c].pc \in {"lock", "scan", "append", "unlock"} /\ ctx.t[c].cur = v}

\* CallsV1.Store returns (the deferred Unlock), then connectRef, lines 364-369,
\* and runChain, lines 471-475: an edge that existed ends the walk, a new one
\* sends it to the receiver
Unlock(c) ==
    /\ At(c, "unlock")
    /\ ctx' = [ctx EXCEPT
                  !.locker = IF @ = c THEN 0 ELSE @,
                  !.t[c].pc = IF ctx.t[c].exists THEN Back(c) ELSE "visit",
                  !.t[c].cur = IF ctx.t[c].exists THEN @ ELSE Receiver(ctx.t[c].cur),
                  !.t[c].told = Append(@, [k |-> Receiver(ctx.t[c].cur), v |-> ctx.t[c].cur,
                                           exists |-> ctx.t[c].exists,
                                           waiting |-> InStore(ctx.t[c].cur) \ {c}])]
    /\ UNCHANGED <<ex, log, tr, panic, over, op, hist>>

\* runChain, lines 499-517; c.calls.Load takes the lock
Advance(c) ==
    /\ At(c, "adv")
    /\ ctx.locker = 0
    /\ IF Len(CallsLoad(ex[1].calls, ctx.t[c].cur)) # 0
       THEN Stepped(c, TraceD(World(<<"notready">>, {}), "fanout", 1, ctx.t[c].cur, "",
                              CallsLoad(ex[1].calls, ctx.t[c].cur)),
                    [ctx.t[c] EXCEPT
                        !.cur = CallsLoad(ex[1].calls, ctx.t[c].cur)[1],
                        !.remaining = @ \o Tail(CallsLoad(ex[1].calls, ctx.t[c].cur)),
                        !.pc = "visit"])
       ELSE IF ctx.t[c].remaining = <<>>
       THEN Stepped(c, World(<<"notready">>, {}), [ctx.t[c] EXCEPT !.pc = Back(c)])
       ELSE Stepped(c, World(<<"notready">>, {}),
                    [ctx.t[c] EXCEPT !.cur = Head(ctx.t[c].remaining),
                                     !.remaining = Tail(@), !.pc = "visit"])

\* the ref whose resource the provider context delivers
Delivered == 1

\* the provider's callback stores the resource in the cache before it calls
\* triggerChain
ProviderStore(c) ==
    /\ At(c, "pstore") /\ c = ProviderCtx
    /\ \E data \in NotifyData(1, Delivered) :
          Stepped(c, CacheStore(Trace(World(<<"notready">>, {}), "notify", 1, Delivered, ""),
                                1, Delivered, StepCache(data, FALSE)),
                  [ctx.t[c] EXCEPT !.data = data, !.pc = "ptrig"])

\* triggerChain, lines 528-530
ProviderCallback(c) ==
    /\ At(c, "ptrig")
    /\ Stepped(c,
               IF Delivered \in DOMAIN ex[1].callbackPoints
               THEN do_callback(Trace(World(<<"notready">>, {}), "trigger", 1, Delivered, ""), 1,
                                [Data |-> ctx.t[c].data,
                                 CodeID |-> ex[1].callbackPoints[Delivered]])
               ELSE Trace(World(<<"notready">>, {}), "trigger", 1, Delivered, ""),
               [ctx.t[c] EXCEPT !.pc = "pload"])

\* triggerChain, lines 532-551: c.calls.Load takes the lock; without
\* dependents the cached result is delivered
ProviderLoad(c) ==
    /\ At(c, "pload")
    /\ ctx.locker = 0
    /\ IF Delivered \in DOMAIN ex[1].calls
       THEN Stepped(c, TraceD(World(<<"notready">>, {}), "fanout", 1, Delivered, "",
                              ex[1].calls[Delivered]),
                    [ctx.t[c] EXCEPT !.nxt = ex[1].calls[Delivered], !.pc = "pwalk"])
       ELSE Stepped(c, TriggerNext(World(<<"notready">>, {}), 1, Delivered),
                    [ctx.t[c] EXCEPT !.pc = "done"])

\* triggerChain, lines 537-540: runChain for the next dependent
ProviderWalk(c) ==
    /\ At(c, "pwalk")
    /\ IF ctx.t[c].nxt = <<>>
       THEN Stepped(c, World(<<"notready">>, {}), [ctx.t[c] EXCEPT !.pc = "done"])
       ELSE Stepped(c, Trace(World(<<"notready">>, {}), "walk", 1, Head(ctx.t[c].nxt), ""),
                    [ctx.t[c] EXCEPT !.nxt = Tail(@), !.cur = Head(ctx.t[c].nxt),
                                     !.remaining = <<>>, !.pc = "visit"])

NextConc ==
    \E c \in Contexts :
        \/ RunNext(c)
        \/ Visit(c)
        \/ Eval(c)
        \/ Lock(c)
        \/ Scan(c)
        \/ AppendEdge(c)
        \/ Unlock(c)
        \/ Advance(c)
        \/ ProviderStore(c)
        \/ ProviderCallback(c)
        \/ ProviderLoad(c)
        \/ ProviderWalk(c)

SpecConc == InitConc /\ [][NextConc]_vars

AllDone == \A c \in Contexts : At(c, "done")

\* ------------------------------------------------------------------ concurrent Connect
\* what context c has been told about the edge k -> v, and how often it was new
ToldOf(c, k, v) == SelectSeq(ctx.t[c].told, LAMBDA a : a.k = k /\ a.v = v)
NewOf(c, k, v) == Len(SelectSeq(ToldOf(c, k, v), LAMBDA a : ~a.exists))
ToldAll(k, v) == Len(ToldOf(1, k, v)) + Len(ToldOf(2, k, v)) + Len(ToldOf(3, k, v))
NewAll(k, v) == NewOf(1, k, v) + NewOf(2, k, v) + NewOf(3, k, v)
Occurrences(k, v) == Len(SelectSeq(CallsLoad(ex[1].calls, k), LAMBDA d : d = v))

\* C16: of the contexts that concurrently call Store(k, v) for an edge that is
\* not stored yet, exactly one is told the edge is new, every other answer
\* (to any context, at any time) is that it existed, and the list of k holds v
\* exactly once
C16_ConnectOnce ==
    \A k \in 1..3 : \A v \in 1..3 :
        /\ NewAll(k, v) <= 1
        /\ Occurrences(k, v) <= 1
        /\ ToldAll(k, v) > 0 => NewAll(k, v) = 1 /\ Occurrences(k, v) = 1

\* two contexts were inside Store for the same new edge at once: one was told
\* it is new while the other waited, the other was then told it existed
C16_Witness ==
    \E c1 \in Contexts : \E c2 \in Contexts \ {c1} :
    \E i \in DOMAIN ctx.t[c1].told : \E j \in DOMAIN ctx.t[c2].told :
        /\ ~ctx.t[c1].told[i].exists
        /\ c2 \in ctx.t[c1].told[i].waiting
        /\ ctx.t[c2].told[j].exists
        /\ ctx.t[c2].told[j].k = ctx.t[c1].told[i].k
        /\ ctx.t[c2].told[j].v = ctx.t[c1].told[i].v
        /\ Occurrences(ctx.t[c1].told[i].k, ctx.t[c1].told[i].v) = 1

\* ------------------------------------------------------------------ lost wakeups
\* context c is not running (its Run() was never called)
Absent(c) == At(c, "done") /\ ctx.t[c].todo # <<>>

\* context c found the receiver of d missing, stored the edge and was sent to
\* re-run the receiver
SentBack(c, d) == NewOf(c, Receiver(d), d) = 1

\* the call at d ran with its receiver in the cache: runBoundFunctionV1
\* registered its watcher
Woken(d) == d \in ex[1].watcherIds

\* C17: one context evaluates a call d whose receiver is not cached (cache
\* load, Store of the edge, re-run of the receiver) while the provider context
\* stores the receiver's value and calls triggerChain: whatever the
\* interleaving, once both are finished d has been evaluated with the
\* receiver's value in the cache
C17_NoLostWakeup ==
    \A d \in {2, 3} :
        AllDone /\ Absent(2) /\ SentBack(1, d) => Woken(d)

\* ------------------------------------------------------------------ cycles
\* programs whose references form a cycle
CyclePrograms ==
    << \* two calls bound to one another
       CodeV1(<<Fn("add", 2, <<IntPrim(1)>>), Fn("add", 1, <<IntPrim(1)>>)>>,
              <<2>>, <<>>, (2 :> "chk2"), <<>>, FALSE),
       \* a watched field, a call on it that takes ref 4 as argument, and a call
       \* bound to that call
       CodeV1(<<Fn("host", 0, <<>>), Fn("name", 1, <<>>), Fn("add", 2, <<RefPrim(4)>>),
                Fn("add", 3, <<IntPrim(1)>>)>>,
              <<4>>, <<>>, (4 :> "chk4"), <<>>, FALSE)
    >>

InitCycle ==
    /\ \E i \in 1..Len(CyclePrograms) :
          ex = Constructed(NewExecutorV1(CyclePrograms[i], "runtime", [kind |-> "user"],
                                         NoClosure))
    /\ log = <<>>
    /\ tr = <<>>
    /\ panic = FALSE
    /\ over = FALSE
    /\ op = Op("New", 0, 0, NilData, FALSE)
    /\ hist = <<>>
    /\ ctx = <<>>

SpecCycle == InitCycle /\ [][Next]_vars

\* C21: every chain walk, started by Run or by triggerChain, ends after
\* finitely many steps, also when the bindings of the program or the edges
\* between cached refs form a cycle: no walk exhausts its step budget
C21_WalksTerminate == ~over

\* ------------------------------------------------------------------ resource creation
\* events a and b are about the same ref of the same executor
SameRef(a, b) == a.e = b.e /\ a.ref = b.ref

\* t[i] is a CreateResource call that no later call for the same ref follows
LastCreate(t, i) ==
    /\ t[i].ev = "create"
    /\ \A j \in (i + 1)..Len(t) : ~(t[j].ev = "create" /\ SameRef(t[i], t[j]))

\* t[j] visits a ref that is not cached, and the provider is asked for it
AsksProvider(t, j) ==
    /\ j + 2 <= Len(t)
    /\ t[j + 1].ev = "eval" /\ SameRef(t[j], t[j + 1])
    /\ t[j + 2].ev = "create" /\ SameRef(t[j], t[j + 2])

\* every argument of the call at t is cached in x without an error, so that
\* createResource gets as far as the provider (line 312)
ArgsResolve(x, t) ==
    \A a \in Range(x[t.e].code.Code[t.ref].Function.Args) :
        a.Type = "ref" =>
            /\ a.Value \in DOMAIN x[t.e].cache
            /\ x[t.e].cache[a.Value].Result.Error = NilErr

\* the cache entry the outcome x of CreateResource leaves at its ref
Settled(entry, x) ==
    /\ entry.IsStatic
    /\ IsResource(entry.Result.Type)
    /\ (x = "ok") = (entry.Result.Error = NilErr)
    /\ (x = "ok") = (entry.Result.Value # NilValue)

C22_WitnessRetry ==
    \E i \in DOMAIN tr :
        /\ tr[i].ev = "create" /\ tr[i].x = "fail"
        /\ Count("Run") + Count("Notify") >= 2
        /\ \A j \in 1..(i - 1) : tr[j].ev # "create"
        /\ ex[tr[i].e].cache[tr[i].ref].Result.Error # NilErr

\* ------------------------------------------------------------------ cached errors
\* the entry at ref of executor e holds an error of the evaluation of its own
\* chunk (not a value the provider delivered for a watched field, nor the
\* result of a block)
EvaluationError(e, ref) ==
    /\ ref \in DOMAIN ex[e].cache
    /\ ex[e].cache[ref].Result.Error # NilErr
    /\ ~IsNotReady(ex[e].cache[ref].Result.Error)
    /\ ref \notin ex[e].watcherIds
    /\ ex[e].code.Code[ref].Id # "{}"

\* C23: every hard evaluation error (unknown property, unknown chunk type,
\* malformed call, failed resource creation, error inherited from the
\* receiver) is in the cache at its ref with IsStatic = TRUE
C23_HardErrorsStatic ==
    \A e \in 1..Len(ex) : \A ref \in 1..Len(ex[e].code.Code) :
        EvaluationError(e, ref) => ex[e].cache[ref].IsStatic

\* C24: a walk that handles a failed evaluation at a ref that has a cache
\* entry leaves the entry as it is; it stores an error entry only when the ref
\* has none and the error is not a not-ready error
C24_ErrorEntryFrame ==
    \A i \in DOMAIN tr :
        tr[i].ev = "failed" =>
            /\ tr[i].data.before # NilData => tr[i].data.after = tr[i].data.before
            /\ tr[i].data.before = NilData /\ IsNotReady(tr[i].data.err) =>
                  tr[i].data.after = NilData
            /\ tr[i].data.before = NilData /\ ~IsNotReady(tr[i].data.err) =>
                  tr[i].data.after =
                      StepCache(RawData("unset", NilValue, tr[i].data.err), FALSE)

\* a failed evaluation at a ref that had an entry (the static error of a
\* resource creation), and one at a ref that had none
C24_Witness ==
    \E i \in DOMAIN tr : \E j \in DOMAIN tr :
        /\ tr[i].ev = "failed" /\ tr[i].data.before # NilData
        /\ tr[i].data.before.IsStatic
        /\ tr[j].ev = "failed" /\ tr[j].data.before = NilData
        /\ ~IsNotReady(tr[j].data.err)

\* ------------------------------------------------------------------ literals
\* C25: the result of evaluating a literal chunk is in the cache at its ref
\* with IsStatic = TRUE
C25_LiteralStatic ==
    \A i \in DOMAIN tr :
        /\ tr[i].ev = "eval"
        /\ tr[i].ref \in 1..Len(ex[tr[i].e].code.Code)
        /\ ex[tr[i].e].code.Code[tr[i].ref].Call = "PRIMITIVE"
        => /\ tr[i].ref \in DOMAIN ex[tr[i].e].cache
           /\ ex[tr[i].e].cache[tr[i].ref].IsStatic

\* ------------------------------------------------------------------ order of Run
\* the walks Run() started on executor e during the last operation
Starts(e) == SelectSeq(tr, LAMBDA t : t.ev = "start" /\ t.e = e)

\* C26: Run() starts its walks in strictly descending order of ref over the
\* callback points, starts none at a ref an earlier walk already visited, and
\* leaves no callback point unvisited
C26_RunDescending ==
    /\ \A i \in DOMAIN tr : \A j \in DOMAIN tr :
          /\ tr[i].ev = "start" /\ tr[j].ev = "start" /\ tr[i].e = tr[j].e /\ i < j
          => tr[i].ref > tr[j].ref
    /\ \A j \in DOMAIN tr :
          tr[j].ev = "start" =>
             /\ tr[j].ref \in DOMAIN ex[tr[j].e].callbackPoints
             /\ \A k \in 1..(j - 1) : ~(tr[k].ev = "visit" /\ SameRef(tr[k], tr[j]))
    /\ op.name = "Run" /\ ~panic /\ ~over =>
          DOMAIN ex[1].callbackPoints \subseteq ex[1].stepTracker

\* a Run() that started two walks and skipped a callback point the first
\* walk had visited
C26_Witness ==
    /\ op.name = "Run"
    /\ Len(Starts(1)) = 2
    /\ Cardinality(DOMAIN ex[1].callbackPoints) = 3
    /\ Starts(1)[1].ref > Starts(1)[2].ref

\* ------------------------------------------------------------------ missing receivers
\* tr[i] is the evaluation of a call bound to a receiver without cache entry
BoundUncached(i) ==
    /\ tr[i].ev = "eval"
    /\ tr[i].data = NilData
    /\ tr[i].ref \in 1..Len(ex[tr[i].e].code.Code)
    /\ ex[tr[i].e].code.Code[tr[i].ref].Call = "FUNCTION"
    /\ ex[tr[i].e].code.Code[tr[i].ref].Function.Binding # 0

\* C27: evaluating a call D bound to a receiver R that has no cache entry
\* stores the edge (R, D), caches nothing at D and delivers nothing for D; the
\* walk continues at R when the edge is new and halts, without evaluating R,
\* when it existed
C27_MissingReceiver ==
    \A i \in DOMAIN tr :
        BoundUncached(i) =>
            /\ i + 1 <= Len(tr)
            /\ tr[i + 1].ev = "connect"
            /\ tr[i + 1].e = tr[i].e
            /\ tr[i + 1].ref = ex[tr[i].e].code.Code[tr[i].ref].Function.Binding
            /\ tr[i + 1].data.dst = tr[i].ref
            /\ tr[i].ref \notin tr[i + 1].data.cached
            /\ tr[i + 1].ref \notin tr[i + 1].data.cached
            /\ Len(SelectSeq(CallsLoad(ex[tr[i].e].calls, tr[i + 1].ref),
                             LAMBDA d : d = tr[i].ref)) = 1
            /\ tr[i + 1].x = "new" =>
                  /\ i + 2 <= Len(tr)
                  /\ tr[i + 2].ev = "visit" /\ SameRef(tr[i + 2], tr[i + 1])
            /\ tr[i + 1].x = "exists" /\ i + 2 <= Len(tr) =>
                  tr[i + 2].ev \notin {"visit", "eval", "cb", "deliver"}

\* one operation in which a call found its receiver missing twice: the first
\* time the edge was new, the second time it existed
C27_Witness ==
    \E i \in DOMAIN tr : \E j \in DOMAIN tr :
        /\ i < j
        /\ BoundUncached(i) /\ BoundUncached(j) /\ SameRef(tr[i], tr[j])
        /\ tr[i + 1].x = "new"
        /\ tr[j + 1].x = "exists"

\* ------------------------------------------------------------------ cached refs
\* events of the evaluation of a chunk
Evaluations == {"eval", "create", "prop", "global", "bound", "connect"}

\* what follows, at position n of tr, the use of the cached result of tr[i]:
\* the walk goes to the registered dependents of the ref, to the remainder
\* queue, or ends
Continues(i, n) ==
    n <= Len(tr) =>
        /\ tr[n].ev \notin Evaluations
        /\ tr[n].ev = "fanout" =>
              /\ SameRef(tr[n], tr[i])
              /\ tr[n + 1].ev = "visit" /\ tr[n + 1].e = tr[i].e
              /\ tr[n + 1].ref = tr[n].data[1]

\* C28: a walk that reaches a ref with a cache entry does not evaluate the
\* ref's chunk (no property lookup, handler, bound function or provider call):
\* it takes the cached result, delivers it if the ref is a callback point, and
\* goes on through the ref's dependents or the remainder queue only
C28_CachedNotEvaluated ==
    [][/\ \A k \in DOMAIN tr' :
             /\ tr'[k].ev \in Evaluations \ {"connect"}
             /\ tr'[k].e <= Len(ex)
             => tr'[k].ref \notin DOMAIN ex[tr'[k].e].cache
       /\ \A i \in DOMAIN tr' :
             tr'[i].ev = "cached" =>
                /\ tr'[i - 1].ev = "visit" /\ SameRef(tr'[i - 1], tr'[i])
                /\ \A k \in (i + 1)..Len(tr') :
                      tr'[k].ev \in Evaluations \ {"connect"} => ~SameRef(tr'[k], tr'[i])
                /\ IF tr'[i].ref \in DOMAIN ex'[tr'[i].e].callbackPoints
                   THEN /\ tr'[i + 1].ev = "deliver" /\ SameRef(tr'[i + 1], tr'[i])
                        /\ tr'[i + 2].ev = "cb" /\ tr'[i + 2].e = tr'[i].e
                        /\ tr'[i + 2].x = ex'[tr'[i].e].callbackPoints[tr'[i].ref]
                        /\ tr'[i + 2].data = ex'[tr'[i].e].cache[tr'[i].ref].Result
                        /\ ex'[tr'[i].e].callback.kind # "block" => Continues(i, i + 3)'
                   ELSE Continues(i, i + 1)']_vars

\* a walk reached a cached callback point that has dependents
C28_Witness ==
    \E i \in DOMAIN tr :
        /\ tr[i].ev = "cached"
        /\ tr[i].ref \in DOMAIN ex[tr[i].e].callbackPoints
        /\ i + 3 <= Len(tr)
        /\ tr[i + 3].ev = "fanout"

\* ------------------------------------------------------------------ block arguments
\* the value of argument a of a call of executor p, as resolveValue gives it
ArgValue(x, p, a) ==
    IF a.Type = "ref" THEN x[p].cache[a.Value].Result
    ELSE RawData("int", IntValue(a.Value), NilErr)

\* what the block call at ref of executor p hands to its block: the receiver,
\* then the arguments after the function reference
BlockArgs(x, p, ref) ==
    <<x[p].cache[x[p].code.Code[ref].Function.Binding].Result>> \o
    [k \in 1..(Len(x[p].code.Code[ref].Function.Args) - 1) |->
        ArgValue(x, p, x[p].code.Code[ref].Function.Args[k + 1])]

\* C29: when a block is invoked, the child executor's cache holds the receiver
\* followed by the resolved arguments, in order, as static entries at refs
\* 1..N before the child's Run starts (a visit of such a ref during that Run
\* finds it cached); the child is in the parent's list of block executors, and
\* it never evaluates the chunks at refs 1..N
C29_BlockSeeded ==
    [][\A c \in (Len(ex) + 1)..Len(ex') :
          /\ ex'[c].callback.kind = "block"
          /\ c \in Range(ex'[ex'[c].closure.parent].blockExecutors)
          /\ \A k \in DOMAIN BlockArgs(ex', ex'[c].closure.parent, ex'[c].closure.ref) :
                /\ k \in DOMAIN ex'[c].cache
                /\ ex'[c].cache[k] =
                      StepCache(BlockArgs(ex', ex'[c].closure.parent, ex'[c].closure.ref)[k],
                                TRUE)
                /\ \A i \in DOMAIN tr' :
                      tr'[i].e = c /\ tr'[i].ref = k =>
                         /\ tr'[i].ev \notin Evaluations \ {"connect"}
                         /\ tr'[i].ev = "visit" => tr'[i + 1].ev = "cached"]_vars

\* a block was called with a receiver and an argument, and its executor
\* delivered the seeded argument from its cache
C29_Witness ==
    \E c \in 2..Len(ex) :
        /\ Len(BlockArgs(ex, ex[c].closure.parent, ex[c].closure.ref)) = 2
        /\ \E i \in DOMAIN tr : tr[i].ev = "cached" /\ tr[i].e = c /\ tr[i].ref = 2
        /\ \E i \in DOMAIN log :
              /\ log[i].e = c
              /\ log[i].CodeID = "aa"
              /\ log[i].Data = RawData("int", IntValue(9), NilErr)

\* ------------------------------------------------------------------ block errors
\* the positions of log at which block executor c delivered code id
Deliveries(c, id) == {i \in DOMAIN log : log[i].e = c /\ log[i].CodeID = id}

\* the first result block executor c delivered for code id carried an error
FirstFailed(c, id) ==
    \E i \in Deliveries(c, id) :
        /\ \A j \in Deliveries(c, id) : i <= j
        /\ log[i].Data.Error # NilErr

\* a delivery after the first one, for code id, carried an error
LaterFailed(c, id) ==
    \E i, j \in Deliveries(c, id) : i < j /\ log[j].Data.Error # NilErr

\* the composite value of block executor c, in its parent's cache
Composite(c) == ex[ex[c].closure.parent].cache[ex[c].closure.ref].Result

\* C30: the error of a multi-field block's composite value is non-nil if and
\* only if, for at least one code id, the first result delivered for that code
\* id carried an error; an error carried only by a later delivery for a
\* recorded code id is not added
C30_CompositeError ==
    \A c \in MultiBlocks :
        Resolved(c) =>
            (Composite(c).Error # NilErr <=> \E id \in RecordedIds(c) : FirstFailed(c, id))

\* a composite value without an error although a later delivery for one of its
\* code ids carried one
C30_Witness ==
    \E c \in MultiBlocks :
        /\ Resolved(c)
        /\ Composite(c).Error = NilErr
        /\ \E id \in RecordedIds(c) : LaterFailed(c, id)

\* a composite value with an error
C30_WitnessError ==
    \E c \in MultiBlocks : Resolved(c) /\ Composite(c).Error # NilErr

\* ------------------------------------------------------------------ single-value blocks
\* the executors of single-value blocks
SingleBlocks == {c \in 1..Len(ex) : ex[c].closure.parent # 0 /\ ex[c].closure.single}

\* the entry of log that the "cb" event at position j of tr belongs to
LogAt(j) == log[Len(log) - Cardinality({k \in (j + 1)..Len(tr) : tr[k].ev = "cb"})]

\* at position j of tr the executor c of a block handed a result to the closure
\* of runBlock
ToClosure(c, j) == tr[j].ev = "cb" /\ tr[j].e = c /\ LogAt(j).to = "block"

\* C31: every result the executor of a single-value block delivers is stored
\* in the parent's cache at the block's ref as a non-static entry, and the
\* parent's forward chain for that ref is triggered at once with that result;
\* no code id is counted
C31_SingleValueDirect ==
    \A c \in SingleBlocks :
        /\ ex[c].closure.blockResult = EmptyMap
        /\ ex[c].closure.anyError = NilErr
        /\ \A j \in DOMAIN tr :
              ToClosure(c, j) =>
                 /\ j < Len(tr)
                 /\ tr[j + 1] = Ev("trigger", ex[c].closure.parent, ex[c].closure.ref, "", NilData)
                 /\ ex[c].closure.ref \in DOMAIN ex[ex[c].closure.parent].callbackPoints =>
                       /\ tr[j + 2].ev = "cb"
                       /\ tr[j + 2].e = ex[c].closure.parent
                       /\ tr[j + 2].data = tr[j].data
                 /\ (\A k \in (j + 1)..Len(tr) : ~ToClosure(c, k)) =>
                       ex[ex[c].closure.parent].cache[ex[c].closure.ref] =
                          StepCache(tr[j].data, FALSE)

\* a single-value block with two callback points handed its closure a result
\* for one of them only, and the parent's chain was triggered
C31_Witness ==
    \E c \in SingleBlocks :
        /\ ex[c].closure.expected = 2
        /\ Cardinality({log[i].CodeID : i \in {n \in DOMAIN log : log[n].e = c}}) = 1
        /\ \E j \in DOMAIN tr : ToClosure(c, j) /\ tr[j + 1].ev = "trigger"

\* a single-value block delivered a second result in a later operation
C31_WitnessAgain ==
    \E c \in SingleBlocks :
        /\ Cardinality({log[i].CodeID : i \in {n \in DOMAIN log : log[n].e = c}}) = 2
        /\ \E j \in DOMAIN tr : ToClosure(c, j) /\ tr[j + 1].ev = "trigger"

\* ------------------------------------------------------------------ graph keys
\* C32: every src key present in the dependency graph of an executor has a
\* non-empty list of dependents, and the "internal state error" panic of
\* triggerChain is not reached
C32_KeysHaveDependents ==
    /\ \A e \in 1..Len(ex) : \A k \in DOMAIN ex[e].calls : Len(ex[e].calls[k]) > 0
    /\ ~panic

\* triggerChain was called on a ref that is a key of the graph
C32_Witness ==
    \E i \in DOMAIN tr :
        /\ tr[i].ev = "trigger"
        /\ tr[i].ref \in DOMAIN ex[tr[i].e].calls
        /\ \E j \in (i + 1)..Len(tr) : tr[j].ev = "walk" /\ tr[j].e = tr[i].e

\* ------------------------------------------------------------------ additive edges
\* the dependents connectRef registered for src of executor e during the
\* operation whose trace is t, in the order of their registration
Registered(t, e, src) ==
    LET new == SelectSeq(t, LAMBDA v : v.ev = "connect" /\ v.e = e /\ v.ref = src /\ v.x = "new")
    IN  [i \in 1..Len(new) |-> new[i].data.dst]

\* the dependents of src in the graph g
Edges(g, src) == IF src \in DOMAIN g THEN g[src] ELSE <<>>

\* C33: edges of the dependency graph are never removed, and Edges(src) lists
\* the dependents in the order of their first registration: every operation
\* leaves Edges(src) as it was, followed by the dependents it registered, in
\* order, each of them once
C33_EdgesAdditive ==
    [][/\ \A e \in 1..Len(ex) :
             /\ e <= Len(ex')
             /\ DOMAIN ex[e].calls \subseteq DOMAIN ex'[e].calls
       /\ \A e \in 1..Len(ex') : \A src \in 1..4 :
             /\ Edges(ex'[e].calls, src) =
                   Edges(IF e <= Len(ex) THEN ex[e].calls ELSE EmptyMap, src)
                      \o Registered(tr', e, src)
             /\ \A i, j \in DOMAIN Edges(ex'[e].calls, src) :
                   Edges(ex'[e].calls, src)[i] = Edges(ex'[e].calls, src)[j] => i = j]_vars

\* a ref has two dependents, registered by an earlier operation, and the last
\* operation, a notification for that ref, walked them in that order
C33_Witness ==
    \E e \in 1..Len(ex) : \E src \in DOMAIN ex[e].calls :
        /\ Len(ex[e].calls[src]) = 2
        /\ Registered(tr, e, src) = <<>>
        /\ \E i, j, k \in DOMAIN tr :
              /\ i < j /\ j < k
              /\ tr[i].ev = "trigger" /\ tr[i].e = e /\ tr[i].ref = src
              /\ tr[j].ev = "walk" /\ tr[j].e = e /\ tr[j].ref = ex[e].calls[src][1]
              /\ tr[k].ev = "walk" /\ tr[k].e = e /\ tr[k].ref = ex[e].calls[src][2]

\* ------------------------------------------------------------------ triggerChainError
RECURSIVE ErrorLoop(_, _, _, _, _)
\* lines 567-579 of triggerChainError, w being the world after the callback of
\* cur: without dependents the loop ends when nothing remains; when something
\* remains it takes the next ref from remaining and then, nxt being empty,
\* reaches the panic of line 576
ErrorNext(w, e, cur, remaining, err) ==
    IF cur \notin DOMAIN w.ex[e].calls
    THEN IF Len(remaining) = 0 THEN w ELSE Panic(w)
    ELSE IF Len(w.ex[e].calls[cur]) = 0 THEN Panic(w)
    ELSE ErrorLoop(w, e, w.ex[e].calls[cur][1], remaining \o Tail(w.ex[e].calls[cur]), err)

\* one iteration of the loop of triggerChainError at cur
ErrorLoop(w, e, cur, remaining, err) ==
    IF cur <= 0 \/ w.panic \/ w.over THEN w
    ELSE IF w.fuel = 0 THEN [w EXCEPT !.over = TRUE]
    ELSE ErrorNext(IF cur \in DOMAIN w.ex[e].callbackPoints
                   THEN do_callback(Trace([w EXCEPT !.fuel = @ - 1], "deliver", e, cur, "err"), e,
                                    [Data |-> RawData("unset", NilValue, err),
                                     CodeID |-> w.ex[e].callbackPoints[cur]])
                   ELSE Trace([w EXCEPT !.fuel = @ - 1], "pass", e, cur, ""),
                   e, cur, remaining, err)

triggerChainError(w, e, ref, err) == ErrorLoop(w, e, ref, <<>>, err)

\* the provider reports that the value of a ref cannot be had
DoTriggerChainError ==
    /\ Live
    /\ \E e \in 1..Len(ex) : \E ref \in 1..Len(ex[e].code.Code) :
          Commit(triggerChainError(World(<<"ok">>, {}), e, ref, HardErr("gone")),
                 Op("TriggerChainError", e, ref, RawData("unset", NilValue, HardErr("gone")), FALSE))

NextError == DoRun \/ ProviderNotify \/ DoTriggerChainError

SpecError == Init /\ [][NextError]_vars

RECURSIVE ReachFrom(_, _, _)
\* the refs reachable from the refs in S over the edges of g, n bounding the depth
ReachFrom(g, S, n) ==
    IF n = 0 THEN S
    ELSE ReachFrom(g, S \cup UNION {Range(Edges(g, r)) : r \in S}, n - 1)

\* no ref of g reaches itself
Acyclic(g) ==
    \A k \in DOMAIN g : k \notin ReachFrom(g, Range(g[k]), Cardinality(DOMAIN g))

\* the deliveries of the last operation for ref r of executor e
ErrorsTo(e, r) ==
    SelectSeq(tr, LAMBDA v : v.ev = "deliver" /\ v.e = e /\ v.ref = r /\ v.x = "err")

\* C34: triggerChainError(ref, err) delivers err exactly once to the callback
\* of every callback point reachable from ref over the edges of an acyclic
\* graph (ref included), and returns without reaching its panic
C34_ErrorReachesAll ==
    (op.name = "TriggerChainError" /\ Acyclic(ex[op.e].calls)) =>
        /\ ~panic
        /\ \A r \in ReachFrom(ex[op.e].calls, {op.ref}, 4) \cap DOMAIN ex[op.e].callbackPoints :
              Len(ErrorsTo(op.e, r)) = 1

\* ------------------------------------------------------------------ code ids
\* triggerChain(ref, data) is called for a ref of the program, whether or not
\* the executor has visited it
DoTriggerChain ==
    /\ Live
    /\ \E e \in 1..Len(ex) : \E ref \in 1..Len(ex[e].code.Code) :
          Commit(triggerChain(World(<<"ok">>, {}), e, ref, RawData("int", IntValue(7), NilErr)),
                 Op("Trigger", e, ref, RawData("int", IntValue(7), NilErr), FALSE))

NextAnyRef == DoRun \/ DoNoRun \/ DoTriggerChain

SpecAnyRef == Init /\ [][NextAnyRef]_vars

\* the checksums of the entrypoints and datapoints of executor e's program
PointIds(e) ==
    {Checksum(ex[e].code, r) :
        r \in Range(ex[e].code.Entrypoints) \cup Range(ex[e].code.Datapoints)}

\* C35: every callback invocation carries a code id that is the checksum of an
\* entrypoint or datapoint of the executor's program, never the empty string:
\* in chain walks, in NoRun and in triggerChain on any ref
C35_CodeIdOfPoint ==
    \A i \in DOMAIN log : log[i].CodeID # "" /\ log[i].CodeID \in PointIds(log[i].e)

\* ------------------------------------------------------------------ refs out of range
\* programs NewExecutorV1 accepts although a ref lies outside the chunk list
RangePrograms ==
    << \* an entrypoint past the last chunk
       CodeV1(<<Lit(5)>>, <<2>>, <<>>, (2 :> "chk2"), <<>>, FALSE),
       \* a datapoint past the last chunk, walked after the resource
       CodeV1(<<Fn("host", 0, <<>>)>>, <<1>>, <<3>>, (1 :> "chk1") @@ (3 :> "chk3"), <<>>, FALSE),
       \* a receiver binding past the last chunk
       CodeV1(<<Lit(5), Fn("add", 4, <<IntPrim(1)>>)>>, <<2>>, <<>>, (2 :> "chk2"), <<>>, FALSE),
       \* a receiver binding below 1
       CodeV1(<<Lit(5), Fn("add", -1, <<IntPrim(1)>>)>>, <<2>>, <<>>, (2 :> "chk2"), <<>>, FALSE),
       \* all refs within the chunk list
       CodeV1(<<Fn("host", 0, <<>>), Fn("name", 1, <<>>), Fn("add", 2, <<IntPrim(1)>>)>>,
              <<3>>, <<2>>, (2 :> "chk2") @@ (3 :> "chk3"), <<>>, FALSE)
    >>

InitRange ==
    /\ \E i \in 1..Len(RangePrograms) :
          ex = Constructed(NewExecutorV1(RangePrograms[i], "runtime", [kind |-> "user"],
                                         NoClosure))
    /\ log = <<>>
    /\ tr = <<>>
    /\ panic = FALSE
    /\ over = FALSE
    /\ op = Op("New", 0, 0, NilData, FALSE)
    /\ hist = <<>>
    /\ ctx = <<>>

SpecRange == InitRange /\ [][Next]_vars

\* C36: for every executor that construction accepted, every ref whose chunk
\* a chain walk looks up lies in 1..len(chunks); a callback point or a receiver
\* binding outside that range ends in an error result and never in an
\* out-of-range access to the chunk list
C36_LookupInRange ==
    /\ ~panic
    /\ \A i \in DOMAIN tr :
          tr[i].ev = "eval" => tr[i].ref \in 1..Len(ex[tr[i].e].code.Code)

\* ------------------------------------------------------------------ step-tracker
\* the step-tracker of executor e in the executors x, empty when x has no e
TrackerOf(x, e) == IF e <= Len(x) THEN x[e].stepTracker ELSE {}

\* C37: step-tracker entries are never removed, and every ref a chain walk
\* visits is entered in the step-tracker; when Run() returns, every entrypoint
\* and datapoint ref of the executor, and of every block executor it started,
\* is in the step-tracker, also those whose chain halted waiting for data
C37_TrackerComplete ==
    [][/\ \A e \in 1..Len(ex') : TrackerOf(ex, e) \subseteq ex'[e].stepTracker
       /\ \A i \in DOMAIN tr' :
             tr'[i].ev \in {"visit", "cached", "eval"} =>
                tr'[i].ref \in ex'[tr'[i].e].stepTracker
       /\ (op'.name = "Run" /\ ~panic' /\ ~over') =>
             /\ DOMAIN ex'[1].callbackPoints \subseteq ex'[1].stepTracker
             /\ \A c \in (Len(ex) + 1)..Len(ex') :
                   DOMAIN ex'[c].callbackPoints \subseteq ex'[c].stepTracker]_vars

\* Run() returned while an entrypoint or datapoint has no result yet: it was
\* visited, the provider was not ready, and the ref is in the step-tracker
C37_Witness ==
    /\ op.name = "Run"
    /\ \E r \in DOMAIN ex[1].callbackPoints :
          /\ r \in ex[1].stepTracker
          /\ r \notin DOMAIN ex[1].cache
          /\ \E i \in DOMAIN tr : tr[i].ev = "visit" /\ tr[i].e = 1 /\ tr[i].ref = r
    /\ \E i \in DOMAIN tr : tr[i].ev = "create" /\ tr[i].x = "notready"

\* ------------------------------------------------------------------ block completion
\* programs that call a multi-field block
BlockPrograms ==
    << \* the block lists ref 3 as entrypoint and as datapoint
       CodeV1(<<Fn("host", 0, <<>>), Fn("{}", 1, <<FunPrim(1)>>)>>,
              <<2>>, <<>>, (2 :> "chk2"),
              <<CodeV1(<<Lit(0), Fn("name", 1, <<>>), Fn("arch", 1, <<>>)>>,
                       <<2, 3>>, <<3>>, (2 :> "fa") @@ (3 :> "fb"), <<>>, FALSE)>>, FALSE),
       \* the block gives refs 2 and 3 the same checksum
       CodeV1(<<Lit(5), Fn("{}", 1, <<FunPrim(1)>>)>>,
              <<2>>, <<>>, (2 :> "chk2"),
              <<CodeV1(<<Lit(0), Fn("add", 1, <<IntPrim(1)>>), Fn("add", 1, <<IntPrim(2)>>)>>,
                       <<2>>, <<3>>, (2 :> "same") @@ (3 :> "same"), <<>>, FALSE)>>, FALSE),
       \* a block over a literal that creates a resource and watches a field of it
       CodeV1(<<Lit(5), Fn("{}", 1, <<FunPrim(1)>>)>>,
              <<2>>, <<>>, (2 :> "chk2"),
              <<CodeV1(<<Lit(0), Fn("pkg", 0, <<>>), Fn("version", 2, <<>>)>>,
                       <<2>>, <<3>>, (2 :> "pa") @@ (3 :> "pb"), <<>>, FALSE)>>, FALSE),
       \* a block over a resource that watches two of its fields
       CodeV1(<<Fn("host", 0, <<>>), Fn("{}", 1, <<FunPrim(1)>>)>>,
              <<2>>, <<>>, (2 :> "chk2"), <<FieldsBlock>>, FALSE)
    >>

InitBlocks ==
    /\ \E i \in 1..Len(BlockPrograms) :
          ex = Constructed(NewExecutorV1(BlockPrograms[i], "runtime", [kind |-> "user"],
                                         NoClosure))
    /\ log = <<>>
    /\ tr = <<>>
    /\ panic = FALSE
    /\ over = FALSE
    /\ op = Op("New", 0, 0, NilData, FALSE)
    /\ hist = <<>>
    /\ ctx = <<>>

SpecBlocks == InitBlocks /\ [][Next]_vars

\* the code ids for which block executor c handed a result to the closure of
\* runBlock
HandedIds(c) == {log[i].CodeID : i \in {n \in DOMAIN log : log[n].e = c /\ log[n].to = "block"}}

\* C38: a multi-field block resolves its parent ref once a result has been
\* delivered for every distinct code id of the sub-program, also when the
\* sub-program lists a ref as entrypoint and as datapoint or gives two refs
\* the same checksum
C38_ResolvesWhenComplete ==
    \A c \in MultiBlocks : PointIds(c) \subseteq HandedIds(c) => Resolved(c)

\* ------------------------------------------------------------------ resolved blocks
\* the positions of the trace t at which a delivery of block executor c made
\* the closure store the composite value at the parent ref and trigger the
\* parent's chain
Resolves(t, c) ==
    {i \in DOMAIN t : /\ t[i].ev = "cb" /\ t[i].e = c
                      /\ i < Len(t) /\ t[i + 1].ev = "resolve"}

\* C39: after a multi-field block has resolved its parent ref to the composite
\* value, further deliveries of the block executor neither store the parent
\* ref again nor trigger the parent's chain again, whether or not the block's
\* receiver is a resource: an operation resolves at most once, and not at all
\* when the block was resolved before it
C39_ResolvedOnce ==
    [][\A c \in 2..Len(ex') :
          ~ex'[c].closure.single =>
             /\ Cardinality(Resolves(tr', c)) <= 1
             /\ (c <= Len(ex) /\ Resolved(c)) => Resolves(tr', c) = {}]_vars

====
